---- MODULE Spec2Model ----
(***************************************************************************)
(* Model of the article outline extractor and the slot injector of         *)
(* src/src/article_processor.py, of the widget suggestion validation of    *)
(* src/src/widget_suggester.py, of render_widget of                        *)
(* src/src/widget_components.py and of the slot builders and the image     *)
(* selection of src/main.py.                                               *)
(*                                                                         *)
(* A parsed document (a BeautifulSoup tree) is a sequence of element       *)
(* records in document (pre-order) order; each record carries the depth of *)
(* its element, so parent and sibling relations are those of the tree.     *)
(* Object identity of an element is its nid.                               *)
(***************************************************************************)
EXTENDS Integers, Sequences, FiniteSets, TLC

VARIABLES
    pc,             \* position of the running function
    soup,           \* the BeautifulSoup tree being read and mutated
    input_soup,     \* the tree as parsed from the function's html argument
    slot_i,         \* number of slots of image_slots already iterated
    last,           \* the slot of the latest loop iteration of the injector
    err,            \* exception raised to the caller ("none" if none)
    enhanced_html,  \* return value of inject_images_into_html
    mutated_html,   \* first return value of html_to_article_view
    article_view,   \* second return value of html_to_article_view
    pass,           \* number of completed extraction passes
    first_html,     \* mutated_html of the first extraction pass
    first_view,     \* article_view of the first extraction pass
    kept_soup       \* the tree of the run over the batch without its
                    \* unresolvable slots (reference run of the injector)

\* State of generate_widget_slots and build_widget_slots_from_specs.
VARIABLES
    slots_data,     \* the slot records of the suggestion service's response
    widget_specs,   \* main's widget_specs after the suggestion call
    w_i,            \* number of records / specs already iterated
    assessed,       \* per iterated spec: what was looked up, assessed, rendered
    widget_slots,   \* the list build_widget_slots_from_specs returns
    w_candidates    \* its list of rejected candidates

\* State of build_image_slots_from_specs and select_best_image_with_grok.
VARIABLES
    api_key,        \* whether XAI_API_KEY is set
    slot_specs,     \* the image specs handed to build_image_slots_from_specs
    spec_i,         \* number of specs already iterated
    resolved,       \* per iterated spec: outcome of its search and selection
    candidates,     \* search results of the current spec
    excluded_indices, \* candidates excluded by the retry loop
    attempt,        \* number of loop iterations of the retry loop so far
    offered,        \* available_candidates of the latest API call
    failures,       \* kinds of API errors seen in the current selection
    selection,      \* return value of the current selection
    image_slots     \* the list build_image_slots_from_specs returns

\* State of generate_image_slots of src/grok_image_suggester.py.
VARIABLES
    sg_api_key,     \* whether an API key is passed or set in the environment
    input_file,     \* what input_path names: nothing, or a file's content
    completion,     \* what client.chat.completions.create does
    output_path,    \* the output_path argument
    suggestion,     \* the dict returned
    saved_file      \* the content written to output_path

\* State of main.
VARIABLES
    env_key,        \* whether XAI_API_KEY is set
    suggested_slots, \* slots_data.get("slots", [])
    widget_data,    \* main's widget_specs after generate_widget_slots
    final_slots,    \* return value of build_image_slots_from_specs
    widget_final_slots, \* return value of build_widget_slots_from_specs
    all_slots,      \* final_slots + widget_final_slots
    written,        \* the text written to the output file
    failed          \* the external calls that failed in this run

widgetVars == <<slots_data, widget_specs, w_i, assessed, widget_slots,
                w_candidates>>
imageVars == <<api_key, slot_specs, spec_i, resolved, candidates,
               excluded_indices, attempt, offered, failures, selection,
               image_slots>>
suggestVars == <<sg_api_key, input_file, completion, output_path, suggestion,
                 saved_file>>
mainVars == <<env_key, suggested_slots, widget_data, final_slots,
              widget_final_slots, all_slots, written, failed>>
pipelineVars == <<suggestVars, mainVars>>
processorVars == <<soup, input_soup, slot_i, last, enhanced_html,
                   mutated_html, pass, first_html, first_view, kept_soup>>

\* The variables of the other functions; they are idle while a function of
\* article_processor.py runs.
otherVars == <<widgetVars, imageVars, pipelineVars>>

vars == <<pc, soup, input_soup, slot_i, last, err, enhanced_html,
          mutated_html, article_view, pass, first_html, first_view,
          kept_soup, otherVars>>

----------------------------------------------------------------------------
(* Bounds *)

MaxNodes == 3       \* elements below the article root (extractor inputs)
MaxAnchors == 2     \* elements below the article root (injector inputs)
MaxDepth == 2       \* nesting depth of the generated elements
MaxSlots == 2       \* length of the slot batch
MaxPasses == 2      \* extraction passes over one document
MaxWidgetSpecs == 2 \* slot records in a response of the widget suggester
MaxSpecs == 2       \* image specs handed to build_image_slots_from_specs
MaxCandidates == 2  \* search results of one image spec
MaxMainImages == 2  \* records of the image suggestion handed to main
MaxMainWidgets == 1 \* records of the widget suggestion handed to main

----------------------------------------------------------------------------
(* Values *)

None == "None"              \* Python None / attribute or key not present

\* The state of a function that is not running.
WidgetsIdle ==
    /\ slots_data = << >> /\ widget_specs = None /\ w_i = 0
    /\ assessed = << >> /\ widget_slots = << >> /\ w_candidates = << >>

ImagesIdle ==
    /\ api_key = FALSE /\ slot_specs = << >> /\ spec_i = 0
    /\ resolved = << >> /\ candidates = << >> /\ excluded_indices = {}
    /\ attempt = 0 /\ offered = << >> /\ failures = {}
    /\ selection = [index |-> 0 - 1, caption |-> None]
    /\ image_slots = << >>

SuggestIdle ==
    /\ sg_api_key = FALSE /\ input_file = None /\ completion = None
    /\ output_path = None /\ suggestion = None /\ saved_file = None

MainIdle ==
    /\ env_key = FALSE /\ suggested_slots = << >> /\ widget_data = << >>
    /\ final_slots = << >> /\ widget_final_slots = << >>
    /\ all_slots = << >> /\ written = << >> /\ failed = {}

PipelineIdle == SuggestIdle /\ MainIdle

OtherIdle == WidgetsIdle /\ ImagesIdle /\ PipelineIdle

HEADING_TAGS == {"h1", "h2", "h3", "h4", "h5", "h6"}

Min(a, b) == IF a <= b THEN a ELSE b

\* Python truthiness of an optional string: None and "" are falsy.
Truthy(x) == x # None /\ x # ""

\* An element: identity, tag name, id attribute, class attribute, depth in
\* the tree, its own text, the attributes itemtype, src and alt, and (for an
\* element built by the injector) the number of the slot it was built for.
Node(nid, tag, id, cls, depth, txt, src, alt, slot) ==
    [nid |-> nid, tag |-> tag, id |-> id, cls |-> cls, depth |-> depth,
     txt |-> txt, itemtype |-> None, src |-> src, alt |-> alt, slot |-> slot]

----------------------------------------------------------------------------
(* Tree navigation on the pre-order representation *)

\* Index of the last element of the subtree rooted at index i.
SubtreeEnd(d, i) ==
    LET later == {j \in (i+1)..Len(d) : d[j].depth <= d[i].depth}
    IN  IF later = {} THEN Len(d)
        ELSE (CHOOSE j \in later : \A k \in later : j <= k) - 1

\* Index of the parent element of i, 0 for a child of the document itself.
Parent(d, i) ==
    LET up == {j \in 1..(i-1) : d[j].depth < d[i].depth}
    IN  IF up = {} THEN 0 ELSE CHOOSE j \in up : \A k \in up : k <= j

\* Index of the next sibling element of i, 0 if i is a last child.
NextSibling(d, i) ==
    LET j == SubtreeEnd(d, i) + 1
    IN  IF j <= Len(d) /\ d[j].depth = d[i].depth THEN j ELSE 0

\* Index of the previous sibling element of i, 0 if i is a first child.
PrevSibling(d, i) ==
    LET before == {j \in 1..(i-1) : NextSibling(d, j) = i}
    IN  IF before = {} THEN 0 ELSE CHOOSE j \in before : TRUE

\* Index of the element whose identity is nid, 0 if there is none.
IndexOf(d, nid) ==
    LET at == {j \in 1..Len(d) : d[j].nid = nid}
    IN  IF at = {} THEN 0 ELSE CHOOSE j \in at : TRUE

\* soup.find(id=x): the first element in document order with that id.
Find(d, x) ==
    LET hits == {j \in 1..Len(d) : d[j].id = x}
    IN  IF hits = {} THEN 0 ELSE CHOOSE j \in hits : \A k \in hits : j <= k

\* Re-base a fragment (whose root has depth 0) at depth dep.
AtDepth(frag, dep) ==
    [k \in 1..Len(frag) |-> [frag[k] EXCEPT !.depth = frag[k].depth + dep]]

\* A defective insert_after: the fragment is put right behind the start tag
\* of the anchor instead of behind the anchor's whole subtree.
InsertAfterStartTag(d, i, frag) ==
    SubSeq(d, 1, i) \o AtDepth(frag, d[i].depth) \o SubSeq(d, i + 1, Len(d))

\* anchor.insert_after(frag): frag becomes the next sibling of anchor i.
InsertAfter(d, i, frag) ==
    LET e == SubtreeEnd(d, i)
    IN  SubSeq(d, 1, e) \o AtDepth(frag, d[i].depth) \o SubSeq(d, e + 1, Len(d))

\* A defective insert_before: the fragment lands behind the anchor.
InsertBeforeBehind(d, i, frag) == InsertAfter(d, i, frag)

\* anchor.insert_before(frag): frag becomes the previous sibling of anchor i.
InsertBefore(d, i, frag) ==
    SubSeq(d, 1, i - 1) \o AtDepth(frag, d[i].depth) \o SubSeq(d, i, Len(d))

----------------------------------------------------------------------------
(* inject_images_into_html *)

Absent == "<absent>"        \* a key that the slot dict does not have
Positions == {Absent, None, "after", "before", "after_heading",
              "before_heading", "inline"}
SlotSectionIds == {None, "sec_1"}
SlotParagraphIds == {None, "p_1"}

\* The slot dicts handed to the injector.  A key that is not present reads
\* as None through slot.get, except "position", which reads as "after", and
\* "alt_text" and "caption", which read as "".
\* A slot built by build_image_slots_from_specs: it carries an image_url.
ImageSlots ==
    [section_id : SlotSectionIds, paragraph_id : SlotParagraphIds,
     position : Positions,
     image_url : {"img_a"}, widget_html : {None},
     alt_text : {"alt"}, caption : {"cap"}]

\* A slot built by build_widget_slots_from_specs: it carries widget_html and
\* has no image_url, alt_text or caption; its position key is always there
\* (position = spec.get("position", "after")).
WidgetSlots ==
    [section_id : SlotSectionIds, paragraph_id : SlotParagraphIds,
     position : {"after", "before"},
     image_url : {None}, widget_html : {"<div>w</div>"},
     alt_text : {""}, caption : {""}]

\* all_slots = final_slots + widget_final_slots
Slots == ImageSlots \cup WidgetSlots

NoSlot == [section_id |-> None, paragraph_id |-> None, position |-> Absent,
           image_url |-> None, widget_html |-> None,
           alt_text |-> "", caption |-> ""]

\* A defective default: a slot without a position is placed before its anchor.
PositionOfDefaultBefore(s) == IF s.position = Absent THEN "before" ELSE s.position

\* slot.get("position", "after")
PositionOf(s) == IF s.position = Absent THEN "after" ELSE s.position

\* A defective anchor lookup: a slot without an anchor falls back to the first
\* element below the root.
AnchorOfFallback(d, s) ==
    LET byParagraph == IF s.paragraph_id # None THEN Find(d, s.paragraph_id) ELSE 0
        bySection == IF s.section_id # None THEN Find(d, s.section_id) ELSE 0
    IN  IF byParagraph # 0 THEN byParagraph
        ELSE IF bySection # 0 THEN bySection
        ELSE 2

\* A defective anchor lookup: the section id is tried before the paragraph id.
AnchorOfSectionFirst(d, s) ==
    LET bySection == IF s.section_id # None THEN Find(d, s.section_id) ELSE 0
    IN  IF bySection # 0 THEN bySection
        ELSE IF s.paragraph_id # None THEN Find(d, s.paragraph_id)
        ELSE 0

\* A defective anchor lookup: a paragraph id that is set is the only id tried.
AnchorOfParagraphOnly(d, s) ==
    IF s.paragraph_id # None THEN Find(d, s.paragraph_id)
    ELSE IF s.section_id # None THEN Find(d, s.section_id)
    ELSE 0

\* The anchor element of a slot (index in d), 0 if there is none.
AnchorOf(d, s) ==
    LET byParagraph == IF s.paragraph_id # None THEN Find(d, s.paragraph_id) ELSE 0
    IN  IF byParagraph # 0 THEN byParagraph
        ELSE IF s.section_id # None THEN Find(d, s.section_id)
        ELSE 0

\* A defective heading lookup: the section element is never looked up.
HeadingAnchorOfNone(d, s) == 0

\* soup.find(id=section_id) if section_id else None
HeadingAnchorOf(d, s) ==
    IF Truthy(s.section_id) THEN Find(d, s.section_id) ELSE 0

\* The <figure class="mm-slot"><img/><figcaption/></figure> element built for
\* the k-th slot; its three elements are new objects.
Figure(d, s, k) ==
    << Node(Len(d) + 1, "figure", None, {"mm-slot"}, 0, "", None, None, k),
       Node(Len(d) + 2, "img", None, {}, 1, "", s.image_url, s.alt_text, k),
       Node(Len(d) + 3, "figcaption", None, {}, 1, s.caption, None, None, k) >>

\* One iteration of the loop over image_slots: the tree after the k-th slot.
InjectOne(d, s, k) ==
    LET position == PositionOf(s)
        anchor == AnchorOf(d, s)
        heading_anchor == HeadingAnchorOf(d, s)
        figure == Figure(d, s, k)
    IN  IF ~Truthy(s.image_url) THEN d
        ELSE IF anchor = 0 THEN d
        ELSE IF position = "before" THEN InsertBefore(d, anchor, figure)
        ELSE IF position = "before_heading" THEN
            IF heading_anchor # 0 THEN InsertBefore(d, heading_anchor, figure)
            ELSE InsertBefore(d, anchor, figure)
        ELSE IF position = "after_heading" THEN
            IF heading_anchor # 0 THEN InsertAfter(d, heading_anchor, figure)
            ELSE InsertAfter(d, anchor, figure)
        ELSE InsertAfter(d, anchor, figure)

\* A defective loop body: a slot without an anchor raises.
InjectRaisesOnMissingAnchor(d, s) ==
    IF AnchorOf(d, s) = 0 THEN "LookupError" ELSE "none"

\* Exception raised by one iteration of the loop: none on any path.
InjectRaises(d, s) == "none"

\* str(soup): the tree written as a sequence of start and end tags.  An img
\* element is void and is written as one self-closing tag.
RECURSIVE Closers(_, _, _)
Closers(open, from, to) ==
    \* end tags of the open elements of depth from, from-1, ..., to
    IF from < to THEN << >>
    ELSE << [t |-> "end", tag |-> open[from + 1]] >> \o Closers(open, from - 1, to)

RECURSIVE SerializeFrom(_, _, _)
SerializeFrom(d, i, open) ==
    \* open[k+1] is the tag of the open non-void element of depth k
    IF i > Len(d) THEN Closers(open, Len(open) - 1, 0)
    ELSE LET n == d[i]
             closing == Closers(open, Len(open) - 1, n.depth)
             kept == SubSeq(open, 1, Min(Len(open), n.depth))
             start == [t |-> IF n.tag = "img" THEN "startend" ELSE "start",
                       tag |-> n.tag, id |-> n.id, cls |-> n.cls,
                       txt |-> n.txt, itemtype |-> n.itemtype,
                       src |-> n.src, alt |-> n.alt]
         IN  closing \o << start >> \o
             SerializeFrom(d, i + 1,
                           IF n.tag = "img" THEN kept ELSE Append(kept, n.tag))

Serialize(d) == SerializeFrom(d, 1, << >>)

\* BeautifulSoup(html, "html.parser"): every start tag makes a new element
\* (new identity, numbered here in document order) below the elements that
\* are still open; an end tag closes the innermost open element.
RECURSIVE ParseFrom(_, _, _, _)
ParseFrom(toks, i, depth, out) ==
    IF i > Len(toks) THEN out
    ELSE LET k == toks[i]
         IN  IF k.t = "end" THEN ParseFrom(toks, i + 1, depth - 1, out)
             ELSE ParseFrom(toks, i + 1,
                            IF k.t = "start" THEN depth + 1 ELSE depth,
                            Append(out, [Node(Len(out) + 1, k.tag, k.id, k.cls,
                                              depth, k.txt, k.src, k.alt, 0)
                                         EXCEPT !.itemtype = k.itemtype]))

Parse(toks) == ParseFrom(toks, 1, 0, << >>)

\* Documents handed to the injector: an article element with up to
\* MaxAnchors descendants, some of which carry the ids the slots name.
AnchorTag(id) == IF id = "sec_1" THEN "h2" ELSE IF id = "p_1" THEN "p" ELSE "div"

WellNested(depths) ==
    /\ depths[1] = 0
    /\ \A k \in 2..Len(depths) : depths[k] >= 1 /\ depths[k] <= depths[k-1] + 1

InjectDoc(n, ids, deps) ==
    [k \in 1..(n + 1) |->
        IF k = 1 THEN Node(1, "article", None, {}, 0, "", None, None, 0)
        ELSE Node(k, AnchorTag(ids[k]), ids[k], {}, deps[k], "", None, None, 0)]

InitInject ==
    /\ pc = "inject"
    /\ \E n \in 1..MaxAnchors :
        \E deps \in {f \in [1..(n + 1) -> 0..MaxDepth] : WellNested(f)} :
        \E ids \in [2..(n + 1) -> {None, "sec_1", "p_1"}] :
            input_soup = InjectDoc(n, ids, deps)
    /\ soup = input_soup
    /\ slot_i = 0
    /\ last = NoSlot
    /\ err = "none"
    /\ enhanced_html = None
    /\ mutated_html = None
    /\ article_view = None
    /\ pass = 0
    /\ first_html = None
    /\ first_view = None
    /\ kept_soup = input_soup
    /\ OtherIdle

\* Neither id of the slot is the id of an element of d: the slots that the
\* reference run leaves out of the batch.
NamesNoElement(d, s) ==
    \A j \in 1..Len(d) :
        d[j].id = None \/ (d[j].id # s.paragraph_id /\ d[j].id # s.section_id)

\* for slot in image_slots: ... (one iteration), and the iteration of the
\* reference run over the batch without its unresolvable slots.
InjectSlot ==
    /\ pc = "inject"
    /\ slot_i < MaxSlots
    /\ \E s \in Slots :
        /\ soup' = InjectOne(soup, s, slot_i + 1)
        /\ err' = InjectRaises(soup, s)
        /\ last' = s
        /\ kept_soup' = IF NamesNoElement(input_soup, s) THEN kept_soup
                        ELSE InjectOne(kept_soup, s, slot_i + 1)
    /\ slot_i' = slot_i + 1
    /\ pc' = IF err' = "none" THEN "inject" ELSE "raised"
    /\ UNCHANGED <<input_soup, enhanced_html, mutated_html, article_view,
                   pass, first_html, first_view, otherVars>>

\* enhanced_html = str(soup); return enhanced_html
InjectReturn ==
    /\ pc = "inject"
    /\ enhanced_html' = Serialize(soup)
    /\ pc' = "returned"
    /\ UNCHANGED <<soup, input_soup, slot_i, last, err, mutated_html,
                   article_view, pass, first_html, first_view,
                   kept_soup, otherVars>>

NextInject == InjectSlot \/ InjectReturn

SpecInject == InitInject /\ [][NextInject]_vars

----------------------------------------------------------------------------
(* html_to_article_view *)

\* A defective id format: ordinals written from 0.
SecIdZeroBased(n) == "sec_" \o ToString(n - 1)

SecId(n) == "sec_" \o ToString(n)       \* f"sec_{section_counter}"
ParId(n) == "p_" \o ToString(n)         \* f"p_{paragraph_counter}"

Level(tag) ==                           \* int(tag.name[1])
    CASE tag = "h1" -> 1 [] tag = "h2" -> 2 [] tag = "h3" -> 3
      [] tag = "h4" -> 4 [] tag = "h5" -> 5 [] tag = "h6" -> 6

ARTICLE_ITEMTYPE == "https://schema.org/Article"

\* A defective root lookup: the itemtype attribute is not looked at.
FindArticleUnmarked(d) ==
    LET any == {j \in 1..Len(d) : d[j].tag = "article"}
    IN  IF any # {} THEN CHOOSE j \in any : \A k \in any : j <= k ELSE 0

\* soup.find("article", itemtype=...) or soup.find("article"): 0 if none.
FindArticle(d) ==
    LET marked == {j \in 1..Len(d) : d[j].tag = "article" /\ d[j].itemtype = ARTICLE_ITEMTYPE}
        any == {j \in 1..Len(d) : d[j].tag = "article"}
        first(S) == CHOOSE j \in S : \A k \in S : j <= k
    IN  IF marked # {} THEN first(marked)
        ELSE IF any # {} THEN first(any)
        ELSE 0

\* A defective title lookup: no heading is taken as the title.
FindTitleNone(d, article) == 0

\* article.find("h1"): the first h1 below the article, 0 if none.
FindTitle(d, article) ==
    LET hs == {j \in (article + 1)..SubtreeEnd(d, article) : d[j].tag = "h1"}
    IN  IF hs = {} THEN 0 ELSE CHOOSE j \in hs : \A k \in hs : j <= k

\* tag.get_text(strip=True): the stripped strings of the subtree, in order.
RECURSIVE GetTextFrom(_, _, _)
GetTextFrom(d, i, e) ==
    IF i > e THEN << >>
    ELSE (IF d[i].txt = "" THEN << >> ELSE << d[i].txt >>) \o GetTextFrom(d, i + 1, e)

GetText(d, i) == GetTextFrom(d, i, SubtreeEnd(d, i))

IsParagraphLike(n) ==
    \/ n.tag = "p"
    \/ n.tag = "span" /\ "mb-4" \in n.cls /\ "block" \in n.cls

\* article.find_all(HEADING_TAGS + ["p", "span"], recursive=True): the
\* identities of the matching descendants, in document order.
FindAll(d, article) ==
    LET RECURSIVE from(_)
        from(j) ==
            IF j > SubtreeEnd(d, article) THEN << >>
            ELSE (IF d[j].tag \in HEADING_TAGS \cup {"p", "span"}
                  THEN << d[j].nid >> ELSE << >>) \o from(j + 1)
    IN  from(article + 1)

\* A defective anchor for the synthetic section: a heading element.
SectionAnchorAsHeading(d, sec_id) ==
    << Node(Len(d) + 1, "h2", sec_id, {}, 0, "", None, None, 0) >>

\* soup.new_tag("div", id=sec_id): a new, empty element.
SectionAnchor(d, sec_id) ==
    << Node(Len(d) + 1, "div", sec_id, {}, 0, "", None, None, 0) >>

\* tag.get("id") or generated
IdOr(n, generated) == IF Truthy(n.id) THEN n.id ELSE generated

\* One iteration of the loop over the matched tags.  st holds the locals:
\* soup, sections, current_section (index into sections, 0 for None),
\* section_counter and paragraph_counter.
VisitTag(st, nid, title_tag) ==
    LET i == IndexOf(st.soup, nid)
        tag == st.soup[i]
    IN  IF tag.tag \in HEADING_TAGS THEN
            IF nid = title_tag THEN st
            ELSE LET section_counter == st.section_counter + 1
                     section_id == IdOr(tag, SecId(section_counter))
                     soup1 == [st.soup EXCEPT ![i].id = section_id]
                     section == [id |-> section_id, level |-> Level(tag.tag),
                                 heading |-> GetText(soup1, i),
                                 paragraphs |-> << >>]
                 IN  [st EXCEPT !.soup = soup1,
                                !.section_counter = section_counter,
                                !.sections = Append(st.sections, section),
                                !.current_section = Len(st.sections) + 1]
        ELSE IF IsParagraphLike(tag) THEN
            LET paragraph_counter == st.paragraph_counter + 1
                p_id == IdOr(tag, ParId(paragraph_counter))
                soup1 == [st.soup EXCEPT ![i].id = p_id]
                paragraph_text == GetText(soup1, i)
                synthetic == st.current_section = 0
                section_counter == IF synthetic THEN st.section_counter + 1
                                   ELSE st.section_counter
                sec_id == SecId(section_counter)
                section_anchor == SectionAnchor(soup1, sec_id)
                soup2 == IF synthetic THEN InsertBefore(soup1, i, section_anchor)
                         ELSE soup1
                sections1 == IF synthetic
                             THEN Append(st.sections,
                                         [id |-> sec_id, level |-> 2,
                                          heading |-> << "Introduction" >>,
                                          paragraphs |-> << >>])
                             ELSE st.sections
                current == IF synthetic THEN Len(sections1) ELSE st.current_section
            IN  [soup |-> soup2,
                 sections |-> [sections1 EXCEPT ![current].paragraphs =
                                  Append(@, [id |-> p_id, text |-> paragraph_text])],
                 current_section |-> current,
                 section_counter |-> section_counter,
                 paragraph_counter |-> paragraph_counter]
        ELSE st

RECURSIVE Walk(_, _, _)
Walk(st, tags, title_tag) ==
    IF tags = << >> THEN st
    ELSE Walk(VisitTag(st, Head(tags), title_tag), Tail(tags), title_tag)

\* The locals of html_to_article_view when it reaches its return statement,
\* for a parsed document d that has an article.
Extract(d) ==
    LET article == FindArticle(d)
        title == FindTitle(d, article)
        title_tag == IF title = 0 THEN 0 ELSE d[title].nid
        st0 == [soup |-> d, sections |-> << >>, current_section |-> 0,
                section_counter |-> 0, paragraph_counter |-> 0]
        st == Walk(st0, FindAll(d, article), title_tag)
    IN  [soup |-> st.soup,
         article_view |-> [title |-> IF title = 0 THEN << >> ELSE GetText(d, title),
                           sections |-> st.sections]]

\* Documents handed to the extractor: an article element with up to MaxNodes
\* descendants (headings, paragraphs, styled spans, with or without an id
\* attribute), and documents that have no article element.
Elements ==
    { [tag |-> t, cls |-> {}, id |-> i] : t \in {"h1", "h2"}, i \in {None, "sec_1"} }
    \cup { [tag |-> "p", cls |-> {}, id |-> i] : i \in {None, "p_1"} }
    \cup { [tag |-> "span", cls |-> c, id |-> None] : c \in {{"mb-4", "block"}, {"block"}} }

ExtractDoc(n, els, deps) ==
    [k \in 1..(n + 1) |->
        IF k = 1 THEN Node(1, "article", None, {}, 0, "", None, None, 0)
        ELSE Node(k, els[k].tag, els[k].id, els[k].cls, deps[k],
                  ToString(k), None, None, 0)]

\* A document without any article element.
NoArticleDoc(tag) ==
    << Node(1, "div", None, {}, 0, "", None, None, 0),
       Node(2, tag, None, {}, 1, "2", None, None, 0) >>

\* A document with two article elements, each holding one paragraph; the
\* second article is a sibling or a descendant of the first, and each has
\* the schema.org Article itemtype, another itemtype or none.
ItemTypes == {None, ARTICLE_ITEMTYPE, "https://schema.org/Person"}

TwoArticleDoc(m1, m2, dep) ==
    << [Node(1, "article", None, {}, 0, "", None, None, 0) EXCEPT !.itemtype = m1],
       Node(2, "p", None, {}, 1, "2", None, None, 0),
       [Node(3, "article", None, {}, dep, "", None, None, 0) EXCEPT !.itemtype = m2],
       Node(4, "p", None, {}, dep + 1, "4", None, None, 0) >>

InitExtract ==
    /\ pc = "extract"
    /\ \/ \E n \in 1..MaxNodes :
           \E deps \in {f \in [1..(n + 1) -> 0..MaxDepth] : WellNested(f)} :
           \E els \in [2..(n + 1) -> Elements] :
               input_soup = ExtractDoc(n, els, deps)
       \/ \E tag \in {"h2", "p"} : input_soup = NoArticleDoc(tag)
       \/ \E m1, m2 \in ItemTypes : \E dep \in 0..1 :
               input_soup = TwoArticleDoc(m1, m2, dep)
    /\ soup = input_soup
    /\ slot_i = 0
    /\ last = NoSlot
    /\ err = "none"
    /\ enhanced_html = None
    /\ mutated_html = None
    /\ article_view = None
    /\ pass = 0
    /\ first_html = None
    /\ first_view = None
    /\ kept_soup = input_soup
    /\ OtherIdle

\* html_to_article_view on a document without an article element.
ExtractRaise ==
    /\ pc = "extract"
    /\ FindArticle(soup) = 0
    /\ err' = "ValueError"
    /\ pc' = "raised"
    /\ UNCHANGED <<soup, input_soup, slot_i, last, enhanced_html, mutated_html,
                   article_view, pass, first_html, first_view,
                   kept_soup, otherVars>>

\* html_to_article_view on a document with an article element.
ExtractReturn ==
    /\ pc = "extract"
    /\ FindArticle(soup) # 0
    /\ LET r == Extract(soup)
       IN  /\ soup' = r.soup
           /\ mutated_html' = Serialize(r.soup)
           /\ article_view' = r.article_view
    /\ pass' = pass + 1
    /\ first_html' = IF pass = 0 THEN mutated_html' ELSE first_html
    /\ first_view' = IF pass = 0 THEN article_view' ELSE first_view
    /\ pc' = "returned"
    /\ UNCHANGED <<input_soup, slot_i, last, err, enhanced_html,
                   kept_soup, otherVars>>

\* The caller hands the returned mutated_html to html_to_article_view again:
\* soup = BeautifulSoup(html, "html.parser").
ExtractAgain ==
    /\ pc = "returned"
    /\ pass < MaxPasses
    /\ soup' = Parse(mutated_html)
    /\ input_soup' = soup'
    /\ pc' = "extract"
    /\ UNCHANGED <<slot_i, last, err, enhanced_html, mutated_html,
                   article_view, pass, first_html, first_view,
                   kept_soup, otherVars>>

NextExtract == ExtractRaise \/ ExtractReturn \/ ExtractAgain

SpecExtract == InitExtract /\ [][NextExtract]_vars

----------------------------------------------------------------------------
(* generate_widget_slots (validation of the response), render_widget,       *)
(* build_widget_slots_from_specs and main's handling of the suggestion call *)

\* The state of article_processor.py while a function of main.py runs.
ProcessorIdle ==
    /\ soup = << >> /\ input_soup = << >> /\ kept_soup = << >>
    /\ slot_i = 0 /\ last = NoSlot
    /\ enhanced_html = None /\ mutated_html = None
    /\ pass = 0 /\ first_html = None /\ first_view = None

\* Scores and priorities are written in tenths: 5 is 0.5.
Scores == {0, 3, 4, 5}
PLACE_SCORE == 5            \* if score >= 0.5
\* A defective fallback: any rendered candidate is good enough.
FallbackAlways == 0 * 3

FALLBACK_SCORE == 3         \* if best_score >= 0.3
MAX_PRIORITY == 10          \* 0 <= slot["priority"] <= 1

\* The slot records of a response of the widget suggestion service.  A
\* record may lack a required field, carry a priority above 1 or carry
\* recommended_dimensions that are not a dict.
SlotRecords ==
    [section_id : {"sec_1", "sec_9"}, paragraph_id : {None},
     position : {"after"},
     widget_type : {"timeline", "quote_block"},
     content_hint : {"hint", Absent},
     priority : {7, 12},
     recommended_dimensions : {"dict", "str"}]

\* The ValueError that the validation loop raises for a slot, None if none.
SlotError(slot) ==
    IF slot.content_hint = Absent THEN "missing fields"
    ELSE IF ~(0 <= slot.priority /\ slot.priority <= MAX_PRIORITY)
         THEN "priority must be float 0.0-1.0"
    ELSE IF slot.recommended_dimensions # "dict"
         THEN "recommended_dimensions invalid"
    ELSE None

\* The article_view handed to build_widget_slots_from_specs.
WidgetArticleView ==
    [title |-> << "T" >>,
     sections |-> << [id |-> "sec_1", level |-> 2, heading |-> << "H" >>,
                      paragraphs |-> << >>] >>]

\* next((s for s in article_view["sections"] if s["id"] == section_id), None)
FindSection(view, section_id) ==
    LET hits == {k \in 1..Len(view.sections) : view.sections[k].id = section_id}
    IN  IF hits = {} THEN 0 ELSE CHOOSE k \in hits : \A j \in hits : k <= j

\* Data extracted by assess_and_extract_data: None, an empty list, or a list
\* of items taken from the context of the n-th spec.
EmptyList == "[]"
ItemsOf(n) == "[items_" \o ToString(n) \o "]"

WIDGET_TYPES == {"timeline", "key_facts", "stat_cards", "key_definitions"}

\* render_timeline, render_key_facts, render_stat_cards, render_key_definitions
Renderer(extracted_data) ==
    IF extracted_data = EmptyList THEN ""
    ELSE "<div class=\"widget\">" \o extracted_data \o "</div>"

\* render_widget(widget_type, extracted_data)
RenderWidget(widget_type, extracted_data) ==
    IF widget_type \in WIDGET_TYPES THEN Renderer(extracted_data)
    ELSE "<div class=\"widget-unknown\">Unsupported widget: "
            \o widget_type \o "</div>"

\* The slot dict appended to widget_slots; c is a spec or a candidate.
WidgetSlot(c, html) ==
    [type |-> "widget", section_id |-> c.section_id,
     paragraph_id |-> c.paragraph_id, position |-> c.position,
     widget_type |-> c.widget_type, widget_html |-> html]

\* The candidate dict kept for a rendered spec whose score is below 0.5.
Candidate(spec, html, score) ==
    [html |-> html, score |-> score, section_id |-> spec.section_id,
     paragraph_id |-> spec.paragraph_id, position |-> spec.position,
     widget_type |-> spec.widget_type]

\* A defective choice of the fallback: the first candidate.
BestIsFirst(cands) == cands[1]

\* max(candidates, key=lambda c: c["score"]): the first of the candidates
\* with the highest score.
Best(cands) ==
    cands[CHOOSE i \in 1..Len(cands) :
            /\ \A j \in 1..Len(cands) : cands[j].score <= cands[i].score
            /\ \A j \in 1..(i - 1) : cands[j].score < cands[i].score]

InitWidgets ==
    /\ pc = "validate"
    /\ err = "none"
    /\ \E n \in 1..MaxWidgetSpecs : slots_data \in [1..n -> SlotRecords]
    /\ widget_specs = None
    /\ w_i = 0
    /\ assessed = << >>
    /\ widget_slots = << >>
    /\ w_candidates = << >>
    /\ article_view = WidgetArticleView
    /\ ProcessorIdle
    /\ ImagesIdle
    /\ PipelineIdle

\* for i, slot in enumerate(slots_data["slots"]): one iteration.  A
\* ValueError raised here is caught by the function's own except Exception
\* and leaves it as a RuntimeError.
ValidateSlot ==
    /\ pc = "validate"
    /\ w_i < Len(slots_data)
    /\ IF SlotError(slots_data[w_i + 1]) = None
       THEN /\ w_i' = w_i + 1
            /\ UNCHANGED <<pc, err>>
       ELSE /\ err' = "RuntimeError"
            /\ pc' = "raised"
            /\ UNCHANGED w_i
    /\ UNCHANGED <<slots_data, widget_specs, assessed, widget_slots,
                   w_candidates, article_view, processorVars, imageVars,
                   pipelineVars>>

\* return slots_data; widget_specs = widget_data.get("slots", [])
ValidateReturn ==
    /\ pc = "validate"
    /\ w_i = Len(slots_data)
    /\ widget_specs' = slots_data
    /\ w_i' = 0
    /\ pc' = "build"
    /\ UNCHANGED <<err, slots_data, assessed, widget_slots, w_candidates,
                   article_view, processorVars, imageVars,
                   pipelineVars>>

\* main: except Exception as e: widget_specs = []
SuggestionFailed ==
    /\ pc = "raised"
    /\ err = "RuntimeError"
    /\ widget_specs = None
    /\ widget_specs' = << >>
    /\ w_i' = 0
    /\ pc' = "build"
    /\ UNCHANGED <<err, slots_data, assessed, widget_slots, w_candidates,
                   article_view, processorVars, imageVars,
                   pipelineVars>>

\* for spec in widget_specs: one iteration.  The score and the data are the
\* service's answer to assess_and_extract_data.
BuildWidget ==
    /\ pc = "build"
    /\ w_i < Len(widget_specs)
    /\ LET spec == widget_specs[w_i + 1]
           section == FindSection(article_view, spec.section_id)
       IN  IF section = 0
           THEN /\ assessed' = Append(assessed,
                       [found |-> FALSE, widget_type |-> spec.widget_type,
                        score |-> 0, extracted_data |-> None, html |-> None])
                /\ UNCHANGED <<widget_slots, w_candidates>>
           ELSE \E score \in Scores :
                \E extracted_data \in {None, EmptyList, ItemsOf(w_i + 1)} :
                   LET html == IF extracted_data # None
                               THEN RenderWidget(spec.widget_type, extracted_data)
                               ELSE None
                       rendered == extracted_data # None /\ Truthy(html)
                   IN  /\ assessed' = Append(assessed,
                              [found |-> TRUE, widget_type |-> spec.widget_type,
                               score |-> score,
                               extracted_data |-> extracted_data, html |-> html])
                       /\ widget_slots' =
                              IF rendered /\ score >= PLACE_SCORE
                              THEN Append(widget_slots, WidgetSlot(spec, html))
                              ELSE widget_slots
                       /\ w_candidates' =
                              IF rendered /\ ~(score >= PLACE_SCORE)
                              THEN Append(w_candidates, Candidate(spec, html, score))
                              ELSE w_candidates
    /\ w_i' = w_i + 1
    /\ UNCHANGED <<pc, err, slots_data, widget_specs, article_view,
                   processorVars, imageVars,
                   pipelineVars>>

\* The fallback after the loop, and return widget_slots.
BuildWidgetsReturn ==
    /\ pc = "build"
    /\ w_i = Len(widget_specs)
    /\ widget_slots' =
          IF widget_slots = << >> /\ w_candidates # << >>
             /\ Best(w_candidates).score >= FALLBACK_SCORE
          THEN Append(widget_slots,
                      WidgetSlot(Best(w_candidates), Best(w_candidates).html))
          ELSE widget_slots
    /\ pc' = "returned"
    /\ UNCHANGED <<err, slots_data, widget_specs, w_i, assessed, w_candidates,
                   article_view, processorVars, imageVars,
                   pipelineVars>>

NextWidgets ==
    \/ ValidateSlot \/ ValidateReturn \/ SuggestionFailed
    \/ BuildWidget \/ BuildWidgetsReturn

SpecWidgets == InitWidgets /\ [][NextWidgets]_vars

----------------------------------------------------------------------------
(* build_image_slots_from_specs and select_best_image_with_grok *)

\* The image specs handed to build_image_slots_from_specs; the suggestion
\* service may have left out the search_query of a record.
ImageSpecs ==
    [section_id : {"sec_1"}, paragraph_id : {None}, position : {"after"},
     search_query : {"q", Absent}, alt_text_hint : {None}]

\* The i-th search result (counted from 0) for the k-th spec.  Whether the
\* selection service can fetch its image is a fact of the environment.
Url(k, i) == "u" \o ToString(k) \o "_" \o ToString(i)
Title(i) == "title_" \o ToString(i)

SearchResults(k, n, titled, reach) ==
    [j \in 1..n |->
        [url |-> Url(k, j - 1),
         title |-> IF j = 1 /\ ~titled THEN Absent ELSE Title(j - 1),
         reachable |-> reach[j]]]

\* c.get("title", "")
TitleOr(c, default) == IF c.title = Absent THEN default ELSE c.title

\* The pair returned by select_best_image_with_grok; the index None is
\* written NoIndex.
NoIndex == 0 - 1
Selection(index, caption) == [index |-> index, caption |-> caption]
NoSelection == Selection(NoIndex, None)

\* The captions a successful API response may carry ("caption": null too).
Captions == {"cap", None}

\* available_candidates: the original indices (from 0) of the candidates
\* that are not excluded, in order.
RECURSIVE AvailableFrom(_, _, _)
AvailableFrom(n, excluded, i) ==
    IF i >= n THEN << >>
    ELSE (IF i \in excluded THEN << >> ELSE << i >>)
         \o AvailableFrom(n, excluded, i + 1)

\* A defective filter: the excluded indices are not left out.
AvailableCandidatesAll(cands, excluded) == AvailableFrom(Len(cands), {}, 0)

AvailableCandidates(cands, excluded) == AvailableFrom(Len(cands), excluded, 0)

\* A defective heuristic: the first candidate still available is blamed.
FailedIdxFirst(available_candidates) == available_candidates[1]

\* failed_idx = available_candidates[-1][0]
FailedIdx(available_candidates) ==
    available_candidates[Len(available_candidates)]

\* A defective fallback without API key: the caption is left empty.
NoKeySelectionBare(cands) == Selection(0, "")

\* return 0, candidates[0].get("title", "")
NoKeySelection(cands) == Selection(0, TitleOr(cands[1], ""))

\* A defective test of the selection: the caption is not looked at.
IsSkippedWithoutIndex(sel) == sel.index = 0 - 1

\* best_index is None or caption is None
IsSkipped(sel) == sel.index = NoIndex \/ sel.caption = None

\* The slot dict appended to image_slots.
ImageSlot(spec, top, caption) ==
    [section_id |-> spec.section_id, paragraph_id |-> spec.paragraph_id,
     position |-> spec.position, image_url |-> top.url,
     alt_text |-> IF Truthy(spec.alt_text_hint) THEN spec.alt_text_hint
                  ELSE IF Truthy(TitleOr(top, None)) THEN top.title
                  ELSE "",
     caption |-> caption]

InitImages ==
    /\ pc = "search"
    /\ err = "none"
    /\ api_key \in BOOLEAN
    /\ \E n \in 1..MaxSpecs : slot_specs \in [1..n -> ImageSpecs]
    /\ spec_i = 0
    /\ resolved = << >>
    /\ candidates = << >>
    /\ excluded_indices = {}
    /\ attempt = 0
    /\ offered = << >>
    /\ failures = {}
    /\ selection = NoSelection
    /\ image_slots = << >>
    /\ article_view = None
    /\ ProcessorIdle
    /\ WidgetsIdle
    /\ PipelineIdle

\* for spec in slot_specs: query = spec["search_query"]; search_images(query)
\* raises, returns nothing, or returns up to MaxCandidates results.
SearchImages ==
    /\ pc = "search"
    /\ spec_i < Len(slot_specs)
    /\ LET spec == slot_specs[spec_i + 1]
       IN  IF spec.search_query = Absent
           THEN /\ err' = "KeyError"
                /\ pc' = "raised"
                /\ UNCHANGED <<spec_i, resolved, candidates>>
           ELSE \/ \E outcome \in {"exception", "empty"} :
                     /\ resolved' = Append(resolved,
                                      [search |-> outcome, selection |-> NoSelection])
                     /\ spec_i' = spec_i + 1
                     /\ UNCHANGED <<pc, err, candidates>>
                \/ \E n \in 1..MaxCandidates : \E titled \in BOOLEAN :
                   \E reach \in [1..n -> BOOLEAN] :
                     /\ candidates' = SearchResults(spec_i + 1, n, titled, reach)
                     /\ pc' = "select"
                     /\ UNCHANGED <<err, spec_i, resolved>>
    /\ excluded_indices' = {}
    /\ attempt' = 0
    /\ offered' = << >>
    /\ failures' = {}
    /\ selection' = NoSelection
    /\ UNCHANGED <<api_key, slot_specs, image_slots, article_view,
                   processorVars, widgetVars, pipelineVars>>

\* select_best_image_with_grok without XAI_API_KEY.
SelectWithoutKey ==
    /\ pc = "select"
    /\ ~api_key
    /\ selection' = NoKeySelection(candidates)
    /\ pc' = "selected"
    /\ UNCHANGED <<err, api_key, slot_specs, spec_i, resolved, candidates,
                   excluded_indices, attempt, offered, failures, image_slots,
                   article_view, processorVars, widgetVars, pipelineVars>>

\* One iteration of the retry loop whose API call answers with a selection.
\* The service answers only if it can fetch every image it was offered.
SelectSuccess ==
    /\ pc = "select"
    /\ api_key
    /\ attempt < Len(candidates)
    /\ LET available_candidates == AvailableCandidates(candidates, excluded_indices)
       IN  /\ available_candidates # << >>
           /\ \A j \in 1..Len(available_candidates) :
                 candidates[available_candidates[j] + 1].reachable
           /\ \E selected_index \in 0..(Len(available_candidates) - 1) :
              \E caption \in Captions :
                 selection' = Selection(available_candidates[selected_index + 1],
                                        caption)
           /\ offered' = available_candidates
    /\ attempt' = attempt + 1
    /\ pc' = "selected"
    /\ UNCHANGED <<err, api_key, slot_specs, spec_i, resolved, candidates,
                   excluded_indices, failures, image_slots,
                   article_view, processorVars, widgetVars, pipelineVars>>

\* One iteration whose API call raises an error with a retryable message: an
\* image fetch error if an offered image cannot be fetched, else another
\* error with one of the status codes 412, 403, 404.  The last available
\* candidate is excluded.
SelectRetryableError ==
    /\ pc = "select"
    /\ api_key
    /\ attempt < Len(candidates)
    /\ LET available_candidates == AvailableCandidates(candidates, excluded_indices)
           failed_idx == FailedIdx(available_candidates)
           unfetchable == \E j \in 1..Len(available_candidates) :
                             ~candidates[available_candidates[j] + 1].reachable
       IN  /\ available_candidates # << >>
           /\ failures' = failures \cup {IF unfetchable THEN "fetch" ELSE "status"}
           /\ excluded_indices' = excluded_indices \cup {failed_idx}
           /\ offered' = available_candidates
    /\ attempt' = attempt + 1
    /\ UNCHANGED <<pc, err, api_key, slot_specs, spec_i, resolved, candidates,
                   selection, image_slots, article_view, processorVars,
                   widgetVars, pipelineVars>>

\* One iteration whose API call raises any other error, or whose response
\* cannot be used: return None, None.
SelectOtherError ==
    /\ pc = "select"
    /\ api_key
    /\ attempt < Len(candidates)
    /\ LET available_candidates == AvailableCandidates(candidates, excluded_indices)
       IN  /\ available_candidates # << >>
           /\ offered' = available_candidates
    /\ failures' = failures \cup {"other"}
    /\ selection' = NoSelection
    /\ attempt' = attempt + 1
    /\ pc' = "selected"
    /\ UNCHANGED <<err, api_key, slot_specs, spec_i, resolved, candidates,
                   excluded_indices, image_slots, article_view, processorVars,
                   widgetVars, pipelineVars>>

\* The loop ends without a selection (no attempt or no candidate is left):
\* return None, None.
SelectExhausted ==
    /\ pc = "select"
    /\ api_key
    /\ \/ attempt >= Len(candidates)
       \/ AvailableCandidates(candidates, excluded_indices) = << >>
    /\ selection' = NoSelection
    /\ pc' = "selected"
    /\ UNCHANGED <<err, api_key, slot_specs, spec_i, resolved, candidates,
                   excluded_indices, attempt, offered, failures, image_slots,
                   article_view, processorVars, widgetVars, pipelineVars>>

\* build_image_slots_from_specs with the pair returned by the selection:
\* skip the spec, or append its slot.
HandleSelection ==
    /\ pc = "selected"
    /\ image_slots' =
          IF IsSkipped(selection) THEN image_slots
          ELSE Append(image_slots,
                      ImageSlot(slot_specs[spec_i + 1],
                                candidates[selection.index + 1],
                                selection.caption))
    /\ resolved' = Append(resolved, [search |-> "candidates",
                                     selection |-> selection])
    /\ spec_i' = spec_i + 1
    /\ candidates' = << >>
    /\ excluded_indices' = {}
    /\ attempt' = 0
    /\ offered' = << >>
    /\ failures' = {}
    /\ selection' = NoSelection
    /\ pc' = "search"
    /\ UNCHANGED <<err, api_key, slot_specs, article_view, processorVars,
                   widgetVars, pipelineVars>>

\* return image_slots
BuildImagesReturn ==
    /\ pc = "search"
    /\ spec_i = Len(slot_specs)
    /\ pc' = "returned"
    /\ UNCHANGED <<err, article_view, processorVars, widgetVars, imageVars,
                   pipelineVars>>

NextImages ==
    \/ SearchImages \/ SelectWithoutKey \/ SelectSuccess
    \/ SelectRetryableError \/ SelectOtherError \/ SelectExhausted
    \/ HandleSelection \/ BuildImagesReturn

SpecImages == InitImages /\ [][NextImages]_vars

----------------------------------------------------------------------------
(* generate_image_slots of src/grok_image_suggester.py *)

\* What input_path names: no file, or a file holding text that is not JSON,
\* a JSON object without "title" or "sections", or an article.
InputFiles == {"missing", "not_json", "no_title", "article"}

\* What the API call does: it returns a completion, or it raises an error
\* whose message names a status or the response format, or any other error.
ApiErrors == {"404", "401", "response_format", "timeout"}

\* The content of a completion: a JSON object with a "slots" key, another
\* JSON object, a JSON array, or text that is not JSON; bare, in a ```json
\* fence or in a ``` fence.  A body of None is a completion without content.
Bodies == {"slots_object", "other_object", "array", "prose"}
Fences == {"none", "json", "plain"}
Contents ==
    [fence : Fences, body : Bodies] \cup {[fence |-> "none", body |-> None]}

Completions ==
    {[raises |-> e, content |-> [fence |-> "none", body |-> None]] : e \in ApiErrors}
    \cup {[raises |-> "none", content |-> c] : c \in Contents}

\* json.loads(response_text): the value, or JSONDecodeError.
JsonLoads(text) ==
    IF text.fence # "none" \/ text.body = "prose" THEN "JSONDecodeError"
    ELSE text.body

\* The text between the first fence and the next one, if there is a fence.
StripFence(text) == [text EXCEPT !.fence = "none"]

\* "slots" not in slots_data
MissingSlots(value) == value # "slots_object"

\* The try statement of generate_image_slots: the exception raised to the
\* caller, the dict returned and the text written.
CallAndParse(c, path) ==
    LET raised(e) == [err |-> e, suggestion |-> None, saved_file |-> None]
        first == JsonLoads(c.content)
        value == IF first = "JSONDecodeError"
                 THEN JsonLoads(StripFence(c.content))
                 ELSE first
    IN  IF c.raises # "none" THEN raised("RuntimeError")
        ELSE IF c.content.body = None THEN raised("RuntimeError")
        ELSE IF value = "JSONDecodeError" THEN raised("ValueError")
        ELSE IF MissingSlots(value) THEN raised("RuntimeError")
        ELSE IF path = None THEN raised("RuntimeError")
        ELSE [err |-> "none", suggestion |-> value, saved_file |-> value]

InitSuggest ==
    /\ pc = "suggest"
    /\ err = "none"
    /\ sg_api_key \in BOOLEAN
    /\ input_file \in InputFiles
    /\ completion \in Completions
    /\ output_path \in {"image_slots.json", None}
    /\ suggestion = None
    /\ saved_file = None
    /\ article_view = None
    /\ ProcessorIdle
    /\ WidgetsIdle
    /\ ImagesIdle
    /\ MainIdle

\* generate_image_slots(input_path, output_path, api_key)
GenerateImageSlots ==
    /\ pc = "suggest"
    /\ LET r == IF ~sg_api_key
                THEN [err |-> "ValueError", suggestion |-> None, saved_file |-> None]
                ELSE IF input_file = "missing"
                THEN [err |-> "FileNotFoundError", suggestion |-> None,
                      saved_file |-> None]
                ELSE IF input_file \in {"not_json", "no_title"}
                THEN [err |-> "ValueError", suggestion |-> None, saved_file |-> None]
                ELSE CallAndParse(completion, output_path)
       IN  /\ err' = r.err
           /\ suggestion' = r.suggestion
           /\ saved_file' = r.saved_file
           /\ pc' = IF r.err = "none" THEN "returned" ELSE "raised"
    /\ UNCHANGED <<sg_api_key, input_file, completion, output_path,
                   article_view, processorVars, widgetVars, imageVars,
                   mainVars>>

NextSuggest == GenerateImageSlots

SpecSuggest == InitSuggest /\ [][NextSuggest]_vars

----------------------------------------------------------------------------
(* main of src/main.py *)

\* html_content: an article with a heading and a paragraph, an article that
\* starts with a paragraph, and a page without an article element.
MainDocs ==
    { << Node(1, "article", None, {}, 0, "", None, None, 0),
         Node(2, "h2", None, {}, 1, "2", None, None, 0),
         Node(3, "p", None, {}, 1, "3", None, None, 0) >>,
      << Node(1, "article", None, {}, 0, "", None, None, 0),
         Node(2, "p", None, {}, 1, "2", None, None, 0) >>,
      << Node(1, "div", None, {}, 0, "", None, None, 0),
         Node(2, "p", None, {}, 1, "2", None, None, 0) >> }

\* The records of the image suggestion handed to main.
MainImageSpecs ==
    [section_id : {"sec_1", "sec_9"}, paragraph_id : {None},
     position : {"after"}, search_query : {"q", Absent},
     alt_text_hint : {None}]

\* The records of the widget suggestion handed to main.
MainWidgetSpecs ==
    [section_id : {"sec_1", "sec_9"}, paragraph_id : {None},
     position : {"after"}, widget_type : {"timeline"}]

\* The sequences over set of length at most n.
SeqsUpTo(set, n) == UNION {[1..k -> set] : k \in 0..n}

\* What the external calls made for one image spec come to.
ImageOutcomes == {"resolved", "search_failed", "no_selection"}

\* What the assessment made for one widget spec comes to.
WidgetOutcomes == {"placed", "assessment_failed"}

\* The list build_image_slots_from_specs returns when the calls made for the
\* k-th spec come to outcomes[k].
RECURSIVE BuiltImageSlots(_, _, _)
BuiltImageSlots(specs, outcomes, k) ==
    IF k > Len(specs) THEN << >>
    ELSE (IF outcomes[k] = "resolved"
          THEN << ImageSlot(specs[k],
                            [url |-> Url(k, 0), title |-> Title(0),
                             reachable |-> TRUE], "cap") >>
          ELSE << >>)
         \o BuiltImageSlots(specs, outcomes, k + 1)

\* The list build_widget_slots_from_specs returns when the assessment of the
\* k-th spec comes to outcomes[k]; the keys image_url, alt_text and caption,
\* which a widget slot does not have, read as slot.get reads them.
RECURSIVE BuiltWidgetSlots(_, _, _)
BuiltWidgetSlots(specs, outcomes, k) ==
    IF k > Len(specs) THEN << >>
    ELSE (IF outcomes[k] = "placed"
          THEN << [section_id |-> specs[k].section_id,
                   paragraph_id |-> specs[k].paragraph_id,
                   position |-> specs[k].position,
                   image_url |-> None,
                   widget_html |-> "<div>w" \o ToString(k) \o "</div>",
                   alt_text |-> "", caption |-> ""] >>
          ELSE << >>)
         \o BuiltWidgetSlots(specs, outcomes, k + 1)

\* The loop of the injector over a list of slots.
RECURSIVE InjectFrom(_, _, _)
InjectFrom(d, slots, k) ==
    IF k > Len(slots) THEN d
    ELSE InjectFrom(InjectOne(d, slots[k], k), slots, k + 1)

\* The injector of src/src/article_processor.py applied to an HTML text.
InjectIntoHtml(html, slots) == Serialize(InjectFrom(Parse(html), slots, 1))

InitMain ==
    /\ pc = "m_extract"
    /\ err = "none"
    /\ soup \in MainDocs
    /\ input_soup = soup
    /\ kept_soup = << >>
    /\ slot_i = 0 /\ last = NoSlot
    /\ pass = 0 /\ first_html = None /\ first_view = None
    /\ mutated_html = << >>
    /\ enhanced_html = << >>
    /\ article_view = None
    /\ env_key \in BOOLEAN
    /\ suggested_slots = << >> /\ widget_data = << >>
    /\ final_slots = << >> /\ widget_final_slots = << >>
    /\ all_slots = << >> /\ written = << >> /\ failed = {}
    /\ WidgetsIdle
    /\ ImagesIdle
    /\ SuggestIdle

\* mutated_html, article_view = html_to_article_view(html_content); the
\* ValueError of a page without article is not caught.
MainExtract ==
    /\ pc = "m_extract"
    /\ IF FindArticle(soup) = 0
       THEN /\ err' = "ValueError"
            /\ pc' = "raised"
            /\ UNCHANGED <<soup, mutated_html, article_view>>
       ELSE LET r == Extract(soup)
            IN  /\ soup' = r.soup
                /\ mutated_html' = Serialize(r.soup)
                /\ article_view' = r.article_view
                /\ pc' = "m_key"
                /\ err' = err
    /\ UNCHANGED <<input_soup, slot_i, last, enhanced_html, pass, first_html,
                   first_view, kept_soup, mainVars, suggestVars, widgetVars,
                   imageVars>>

\* if not os.getenv("XAI_API_KEY"): return
MainCheckKey ==
    /\ pc = "m_key"
    /\ pc' = IF env_key THEN "m_suggest_images" ELSE "ended"
    /\ UNCHANGED <<err, article_view, processorVars, mainVars, suggestVars,
                   widgetVars, imageVars>>

\* slots_data = generate_image_slots(...); an exception ends main.
MainSuggestImages ==
    /\ pc = "m_suggest_images"
    /\ \/ /\ failed' = failed \cup {"image_suggestion"}
          /\ pc' = "ended"
          /\ UNCHANGED suggested_slots
       \/ \E slots \in SeqsUpTo(MainImageSpecs, MaxMainImages) :
             /\ suggested_slots' = slots
             /\ pc' = "m_suggest_widgets"
             /\ UNCHANGED failed
    /\ UNCHANGED <<err, article_view, processorVars, env_key, widget_data,
                   final_slots, widget_final_slots, all_slots, written,
                   suggestVars, widgetVars, imageVars>>

\* widget_data = generate_widget_slots(...); after an exception main goes on
\* with widget_specs = [].
MainSuggestWidgets ==
    /\ pc = "m_suggest_widgets"
    /\ \/ /\ failed' = failed \cup {"widget_suggestion"}
          /\ widget_data' = << >>
       \/ \E slots \in SeqsUpTo(MainWidgetSpecs, MaxMainWidgets) :
             /\ widget_data' = slots
             /\ UNCHANGED failed
    /\ pc' = "m_build_images"
    /\ UNCHANGED <<err, article_view, processorVars, env_key, suggested_slots,
                   final_slots, widget_final_slots, all_slots, written,
                   suggestVars, widgetVars, imageVars>>

\* final_slots = build_image_slots_from_specs(suggested_slots): a spec
\* without search_query raises KeyError out of main; a failed search or
\* selection drops its spec.
MainBuildImages ==
    /\ pc = "m_build_images"
    /\ IF \E k \in 1..Len(suggested_slots) :
             suggested_slots[k].search_query = Absent
       THEN /\ err' = "KeyError"
            /\ pc' = "raised"
            /\ UNCHANGED <<final_slots, failed>>
       ELSE \E outcomes \in [1..Len(suggested_slots) -> ImageOutcomes] :
             /\ final_slots' = BuiltImageSlots(suggested_slots, outcomes, 1)
             /\ failed' = failed
                  \cup {"image_search" : k \in {j \in 1..Len(suggested_slots) :
                                                  outcomes[j] = "search_failed"}}
                  \cup {"selection" : k \in {j \in 1..Len(suggested_slots) :
                                               outcomes[j] = "no_selection"}}
             /\ pc' = "m_build_widgets"
             /\ err' = err
    /\ UNCHANGED <<article_view, processorVars, env_key, suggested_slots,
                   widget_data, widget_final_slots, all_slots, written,
                   suggestVars, widgetVars, imageVars>>

\* widget_final_slots = build_widget_slots_from_specs(widget_specs, article_view)
MainBuildWidgets ==
    /\ pc = "m_build_widgets"
    /\ \E outcomes \in [1..Len(widget_data) -> WidgetOutcomes] :
          /\ widget_final_slots' = BuiltWidgetSlots(widget_data, outcomes, 1)
          /\ failed' = failed
               \cup {"widget_assessment" : k \in {j \in 1..Len(widget_data) :
                                                    outcomes[j] = "assessment_failed"}}
    /\ pc' = "m_inject"
    /\ UNCHANGED <<err, article_view, processorVars, env_key, suggested_slots,
                   widget_data, final_slots, all_slots, written,
                   suggestVars, widgetVars, imageVars>>

\* if not final_slots and not widget_final_slots: enhanced_html =
\* mutated_html, else the injector is run on mutated_html.
MainInjectFirst ==
    /\ pc = "m_inject"
    /\ IF final_slots = << >> /\ widget_final_slots = << >>
       THEN /\ enhanced_html' = mutated_html
            /\ UNCHANGED all_slots
       ELSE /\ all_slots' = final_slots \o widget_final_slots
            /\ enhanced_html' = InjectIntoHtml(mutated_html, all_slots')
    /\ pc' = "m_inject_again"
    /\ UNCHANGED <<err, article_view, soup, input_soup, slot_i, last,
                   mutated_html, pass, first_html, first_view, kept_soup,
                   env_key, suggested_slots, widget_data, final_slots,
                   widget_final_slots, written, failed,
                   suggestVars, widgetVars, imageVars>>

\* "Step 5": the injector is run on mutated_html once more.
MainInjectSecond ==
    /\ pc = "m_inject_again"
    /\ all_slots' = final_slots \o widget_final_slots
    /\ enhanced_html' = InjectIntoHtml(mutated_html, all_slots')
    /\ pc' = "m_write"
    /\ UNCHANGED <<err, article_view, soup, input_soup, slot_i, last,
                   mutated_html, pass, first_html, first_view, kept_soup,
                   env_key, suggested_slots, widget_data, final_slots,
                   widget_final_slots, written, failed,
                   suggestVars, widgetVars, imageVars>>

\* output_html_path.write_text(enhanced_html)
MainWrite ==
    /\ pc = "m_write"
    /\ written' = enhanced_html
    /\ pc' = "ended"
    /\ UNCHANGED <<err, article_view, processorVars, env_key, suggested_slots,
                   widget_data, final_slots, widget_final_slots, all_slots,
                   failed, suggestVars, widgetVars, imageVars>>

NextMain ==
    \/ MainExtract \/ MainCheckKey \/ MainSuggestImages \/ MainSuggestWidgets
    \/ MainBuildImages \/ MainBuildWidgets \/ MainInjectFirst
    \/ MainInjectSecond \/ MainWrite

SpecMain == InitMain /\ [][NextMain]_vars

----------------------------------------------------------------------------
(* Properties of inject_images_into_html (checked under SpecInject) *)

\* Index of the figure element built for the k-th slot, 0 if none was built.
FigureOf(d, k) ==
    LET figs == {j \in 1..Len(d) : d[j].tag = "figure" /\ d[j].slot = k}
    IN  IF figs = {} THEN 0 ELSE CHOOSE j \in figs : TRUE

\* An id that names an element of d.
Resolves(d, x) == x # None /\ \E j \in 1..Len(d) : d[j].id = x

\* The first element of d carrying id x (0 if none), as a position in d.
Carrier(d, x) ==
    IF Resolves(d, x)
    THEN CHOOSE j \in 1..Len(d) : d[j].id = x /\ \A k \in 1..(j-1) : d[k].id # x
    ELSE 0

\* Position in d2 of the element that sits at position i of d1.
Same(d1, i, d2) == IndexOf(d2, d1[i].nid)

\* C1: two consecutive slots A, B with position "after" and the same primary
\* anchor X leave the document in the order X, A's figure, B's figure, each
\* the immediate next sibling of the one before.
C1_BatchOrderPreserved ==
    [][ ( /\ pc = "inject" /\ slot_i >= 1 /\ slot_i' = slot_i + 1
          /\ Truthy(last.image_url) /\ Truthy(last'.image_url)
          /\ last.position = "after" /\ last'.position = "after"
          /\ AnchorOf(soup, last) # 0
          /\ AnchorOf(soup, last) = AnchorOf(soup, last') )
        => LET x == Same(soup, AnchorOf(soup, last'), soup')
               a == FigureOf(soup', slot_i)
               b == FigureOf(soup', slot_i')
           IN  /\ a # 0 /\ b # 0
               /\ NextSibling(soup', x) = a
               /\ NextSibling(soup', a) = b ]_vars

\* C25: two consecutive slots A, B with position "before" and the same
\* anchor X leave the document in the order A's figure, B's figure, X, with
\* B's figure the immediate previous sibling of X and A's figure the one
\* before it; both figures are there, also when their payloads are equal.
C25_BeforeStacking ==
    [][ ( /\ pc = "inject" /\ slot_i >= 1 /\ slot_i' = slot_i + 1
          /\ Truthy(last.image_url) /\ Truthy(last'.image_url)
          /\ last.position = "before" /\ last'.position = "before"
          /\ AnchorOf(soup, last) # 0
          /\ AnchorOf(soup, last) = AnchorOf(soup, last') )
        => LET x == Same(soup, AnchorOf(soup, last'), soup')
               a == FigureOf(soup', slot_i)
               b == FigureOf(soup', slot_i')
           IN  /\ a # 0 /\ b # 0 /\ a # b
               /\ PrevSibling(soup', x) = b
               /\ PrevSibling(soup', b) = a
               /\ a < b /\ b < x ]_vars

\* Witness of C25: two figures with equal payloads stand, in the order of
\* their slots, right before an element that had no previous sibling.
C25_Witness ==
    /\ pc = "inject" /\ slot_i = 2 /\ err = "none"
    /\ last.position = "before"
    /\ LET a == FigureOf(soup, 1)
           b == FigureOf(soup, 2)
       IN  /\ a # 0 /\ b # 0
           /\ PrevSibling(soup, a) = 0
           /\ PrevSibling(soup, b) = a
           /\ NextSibling(soup, b) = AnchorOf(soup, last)
           /\ soup[a + 1].src = soup[b + 1].src
           /\ soup[a + 2].txt = soup[b + 2].txt

\* C26: a single image slot whose paragraph_id is set and names no element
\* while its section_id names one is not skipped: with position "after"
\* ("before") its figure is the immediate next (previous) sibling of the
\* element carrying section_id.
C26_SectionFallback ==
    ( /\ slot_i = 1 /\ Truthy(last.image_url)
      /\ last.paragraph_id # None
      /\ ~Resolves(input_soup, last.paragraph_id)
      /\ Resolves(input_soup, last.section_id)
      /\ last.position \in {"after", "before"} )
    => LET t == Same(input_soup, Carrier(input_soup, last.section_id), soup)
           f == FigureOf(soup, 1)
       IN  /\ err = "none"
           /\ f # 0
           /\ Len(soup) = Len(input_soup) + 3
           /\ last.position = "after" => NextSibling(soup, t) = f
           /\ last.position = "before" => PrevSibling(soup, t) = f

\* Witness of C26: a figure sits right before the section element of a slot
\* whose paragraph id is stale.
C26_Witness ==
    /\ slot_i = 1 /\ Truthy(last.image_url) /\ last.position = "before"
    /\ last.paragraph_id # None
    /\ ~Resolves(input_soup, last.paragraph_id)
    /\ Resolves(input_soup, last.section_id)
    /\ FigureOf(soup, 1) # 0
    /\ NextSibling(soup, FigureOf(soup, 1)) # 0
    /\ soup[NextSibling(soup, FigureOf(soup, 1))].id = last.section_id

\* The elements of d that are not elements of the input document.
Inserted(d) == {j \in 1..Len(d) : d[j].nid > Len(input_soup)}

\* The fragment of slot k is absent, or is one figure holding one img and one
\* figcaption and nothing else.
WholeFragment(d, k) ==
    LET mine == {j \in Inserted(d) : d[j].slot = k}
        f == FigureOf(d, k)
    IN  \/ mine = {}
        \/ /\ f # 0
           /\ mine = {f, f + 1, f + 2}
           /\ SubtreeEnd(d, f) = f + 2
           /\ d[f + 1].tag = "img" /\ Parent(d, f + 1) = f
           /\ d[f + 2].tag = "figcaption" /\ Parent(d, f + 2) = f

\* C4: after every processed slot each element of the input is still there,
\* unchanged, below the same parent and in the same relative order, and every
\* other element belongs to the fragment of a slot processed so far; the
\* returned string is that document.
C4_InjectionAdditive ==
    pc \in {"inject", "returned"} =>
        /\ \A i \in 1..Len(input_soup) :
            LET j == Same(input_soup, i, soup)
            IN  /\ j # 0
                /\ soup[j] = input_soup[i]
                /\ Parent(soup, j) =
                      (IF Parent(input_soup, i) = 0 THEN 0
                       ELSE Same(input_soup, Parent(input_soup, i), soup))
        /\ \A i1, i2 \in 1..Len(input_soup) :
            i1 < i2 => Same(input_soup, i1, soup) < Same(input_soup, i2, soup)
        /\ \A j \in Inserted(soup) : soup[j].slot \in 1..slot_i
        /\ \A k \in 1..MaxSlots : WholeFragment(soup, k)
        /\ Cardinality({soup[j].nid : j \in 1..Len(soup)}) = Len(soup)
        /\ pc = "returned" =>
            LET out == Parse(enhanced_html)
            IN  /\ Len(out) = Len(soup)
                /\ \A j \in 1..Len(soup) :
                      [out[j] EXCEPT !.nid = 0, !.slot = 0]
                      = [soup[j] EXCEPT !.nid = 0, !.slot = 0]

\* Witness of C4: a figure was inserted behind an element that has children.
C4_Witness ==
    /\ slot_i >= 1
    /\ \E k \in 1..slot_i :
        LET f == FigureOf(soup, k)
        IN  /\ f # 0
            /\ PrevSibling(soup, f) # 0
            /\ SubtreeEnd(soup, PrevSibling(soup, f)) > PrevSibling(soup, f)
            /\ soup[PrevSibling(soup, f)].slot = 0

\* Neither id of the slot names an element of d.
Unresolvable(d, s) == ~Resolves(d, s.paragraph_id) /\ ~Resolves(d, s.section_id)

\* C5: a slot neither of whose ids resolves leaves the document as it was and
\* raises nothing, whatever its position and payload.
C5_SkipOnMissingAnchor ==
    [][ (pc = "inject" /\ slot_i' = slot_i + 1 /\ Unresolvable(soup, last'))
        => (soup' = soup /\ err' = "none" /\ pc' = "inject") ]_vars

\* Witness of C5: a slot with an image and two stale ids has been processed.
C5_Witness ==
    /\ pc = "inject" /\ slot_i >= 1 /\ err = "none"
    /\ Truthy(last.image_url)
    /\ last.paragraph_id # None /\ last.section_id # None
    /\ Unresolvable(soup, last)
    /\ soup = input_soup

\* C9: for a single image slot whose paragraph_id resolves, "after" makes the
\* figure the immediate next sibling of the paragraph element and "before"
\* its immediate previous sibling, and the section_id plays no part.
C9_ParagraphPositions ==
    ( /\ slot_i = 1 /\ Truthy(last.image_url)
      /\ Resolves(input_soup, last.paragraph_id)
      /\ last.position \in {"after", "before"} )
    => LET p == Same(input_soup, Carrier(input_soup, last.paragraph_id), soup)
           f == FigureOf(soup, 1)
       IN  /\ f # 0
           /\ last.position = "after" => NextSibling(soup, p) = f
           /\ last.position = "before" => PrevSibling(soup, p) = f
           /\ \A sid \in SlotSectionIds :
                soup = InjectOne(input_soup, [last EXCEPT !.section_id = sid], 1)

\* Witness of C9: a figure sits right after a paragraph although the slot
\* also named a section that resolves to another element.
C9_Witness ==
    /\ slot_i = 1 /\ Truthy(last.image_url) /\ last.position = "after"
    /\ Resolves(input_soup, last.paragraph_id)
    /\ Resolves(input_soup, last.section_id)
    /\ FigureOf(soup, 1) # 0
    /\ PrevSibling(soup, FigureOf(soup, 1)) # 0
    /\ soup[PrevSibling(soup, FigureOf(soup, 1))].id = last.paragraph_id

\* C10: for a single image slot with position after_heading (before_heading)
\* whose section_id resolves, the figure is the immediate next (previous)
\* sibling of the element carrying section_id, whatever the paragraph_id; if
\* section_id does not resolve and paragraph_id does, the figure is the
\* immediate next (previous) sibling of the paragraph element.
C10_HeadingPositions ==
    ( /\ slot_i = 1 /\ Truthy(last.image_url)
      /\ last.position \in {"after_heading", "before_heading"}
      /\ (Resolves(input_soup, last.section_id) \/ Resolves(input_soup, last.paragraph_id)) )
    => LET target == IF Resolves(input_soup, last.section_id)
                     THEN Carrier(input_soup, last.section_id)
                     ELSE Carrier(input_soup, last.paragraph_id)
           t == Same(input_soup, target, soup)
           f == FigureOf(soup, 1)
       IN  /\ f # 0
           /\ last.position = "after_heading" => NextSibling(soup, t) = f
           /\ last.position = "before_heading" => PrevSibling(soup, t) = f

\* Witness of C10: an after_heading figure sits right after the section
\* element although the slot named a paragraph that resolves elsewhere.
C10_Witness ==
    /\ slot_i = 1 /\ Truthy(last.image_url) /\ last.position = "after_heading"
    /\ Resolves(input_soup, last.paragraph_id)
    /\ Resolves(input_soup, last.section_id)
    /\ FigureOf(soup, 1) # 0
    /\ PrevSibling(soup, FigureOf(soup, 1)) # 0
    /\ soup[PrevSibling(soup, FigureOf(soup, 1))].id = last.section_id

\* C12: at every point of the loop, and in the string returned, the document
\* is the one that the same batch without its unresolvable slots produces
\* (every slot keeping the number it has in the whole batch), and no slot
\* makes the loop stop.
C12_FailureIsolation ==
    /\ pc \in {"inject", "returned"} /\ err = "none"
    /\ soup = kept_soup
    /\ pc = "returned" => enhanced_html = Serialize(kept_soup)

\* Witness of C12: the document was returned for a batch whose last slot was
\* an image slot with a stale id, and it holds the figure of the slot before.
C12_Witness ==
    /\ pc = "returned" /\ slot_i >= 2
    /\ Truthy(last.image_url)
    /\ (last.paragraph_id # None \/ last.section_id # None)
    /\ Unresolvable(input_soup, last)
    /\ FigureOf(soup, slot_i - 1) # 0
    /\ FigureOf(soup, slot_i) = 0

\* C14: a single slot whose position is absent, null or any value other than
\* before, before_heading, after_heading leaves the document that the same
\* slot with position "after" leaves; for an image slot with an anchor that
\* is the figure as the immediate next sibling of the primary anchor (the
\* paragraph element if paragraph_id resolves, else the section element).
C14_DefaultPosition ==
    ( /\ slot_i = 1
      /\ last.position \notin {"before", "before_heading", "after_heading"} )
    => /\ soup = InjectOne(input_soup, [last EXCEPT !.position = "after"], 1)
       /\ (Truthy(last.image_url) /\ ~Unresolvable(input_soup, last)) =>
            LET primary == IF Resolves(input_soup, last.paragraph_id)
                           THEN Carrier(input_soup, last.paragraph_id)
                           ELSE Carrier(input_soup, last.section_id)
                f == FigureOf(soup, 1)
            IN  /\ f # 0
                /\ NextSibling(soup, Same(input_soup, primary, soup)) = f

\* Witness of C14: slots with no position and with an unrecognized one have
\* put their figures right behind their anchors.
C14_Witness ==
    /\ slot_i = 1 /\ Truthy(last.image_url)
    /\ last.position \in {Absent, None, "inline"}
    /\ FigureOf(soup, 1) # 0
    /\ PrevSibling(soup, FigureOf(soup, 1)) # 0
    /\ soup[PrevSibling(soup, FigureOf(soup, 1))].id
          \in {last.paragraph_id, last.section_id} \ {None}

\* C11: after a single slot whose payload is widget_html (and no image_url)
\* and one of whose ids resolves, the document holds an inserted element of
\* that slot which is marked with a class and contains the slot's widget HTML.
C11_WidgetSlotsInjected ==
    ( /\ slot_i = 1
      /\ Truthy(last.widget_html) /\ ~Truthy(last.image_url)
      /\ (Resolves(input_soup, last.paragraph_id)
            \/ Resolves(input_soup, last.section_id)) )
    => \E j \in Inserted(soup) :
          /\ soup[j].slot = 1
          /\ soup[j].cls # {}
          /\ \E k \in j..SubtreeEnd(soup, j) : soup[k].txt = last.widget_html

----------------------------------------------------------------------------
(* Properties of the widget functions (checked under SpecWidgets) *)

\* A slot record that has every required field, a priority in [0,1] and
\* dimensions that are a dict.
WellFormed(slot) ==
    /\ slot.content_hint # Absent
    /\ slot.priority \in 0..10
    /\ slot.recommended_dimensions = "dict"

\* C16: once the response of the suggestion service has been validated, the
\* specs that are processed into slots are all well-formed records of the
\* response, in their order: only the malformed records are rejected.
C16_PerRecordValidation ==
    pc \in {"build", "returned"} =>
        widget_specs = SelectSeq(slots_data, WellFormed)

\* The specs whose assessment came with data that rendered to a non-empty
\* fragment, by position in the batch.
Rendered(log) ==
    {k \in 1..Len(log) :
        log[k].found /\ log[k].extracted_data # None /\ log[k].html # ""}

\* C17 as stated: a widget slot is returned whenever a spec of the batch was
\* assessed with a score of at least 0.3.
C17_FallbackWheneverScored ==
    pc = "returned" =>
        ( (\E k \in 1..Len(assessed) : assessed[k].found /\ assessed[k].score >= 3)
          => Len(widget_slots) >= 1 )

\* C17, amended: a widget slot is returned whenever a spec of the batch was
\* assessed with a score of at least 0.3 and with data that rendered to a
\* non-empty fragment; when none of the rendered specs reached 0.5, exactly
\* one slot is returned, and it holds the fragment of the first of the
\* rendered specs with the highest score.
C17_FallbackGuarantee ==
    pc = "returned" =>
        LET ok == Rendered(assessed)
        IN  (\E k \in ok : assessed[k].score >= 3) =>
              /\ Len(widget_slots) >= 1
              /\ (\A k \in ok : assessed[k].score < 5) =>
                    LET best == CHOOSE k \in ok :
                                  /\ \A j \in ok : assessed[j].score <= assessed[k].score
                                  /\ \A j \in ok : j < k =>
                                        assessed[j].score < assessed[k].score
                    IN  /\ Len(widget_slots) = 1
                        /\ widget_slots[1].widget_html = assessed[best].html
                        /\ widget_slots[1].widget_type = assessed[best].widget_type

\* Witness of C17: of two rendered specs with scores 0.3 and 0.4 the second
\* one was returned as the fallback.
C17_Witness ==
    /\ pc = "returned"
    /\ Len(assessed) = 2
    /\ Rendered(assessed) = {1, 2}
    /\ assessed[1].score = 3 /\ assessed[2].score = 4
    /\ assessed[1].html # assessed[2].html
    /\ Len(widget_slots) = 1
    /\ widget_slots[1].widget_html = assessed[2].html

\* C18: the rendering of a widget type without a renderer, and of empty
\* data, is the empty fragment, and no widget slot is returned for a spec
\* whose type has no renderer.
C18_UnsupportedSkipped ==
    /\ \A k \in 1..Len(assessed) :
          ( /\ assessed[k].extracted_data # None
            /\ \/ assessed[k].widget_type \notin WIDGET_TYPES
               \/ assessed[k].extracted_data = EmptyList )
          => assessed[k].html = ""
    /\ pc = "returned" =>
          \A k \in 1..Len(widget_slots) :
              widget_slots[k].widget_type \in WIDGET_TYPES

\* The fragments of the slots of a list, in order.
RECURSIVE Fragments(_)
Fragments(slots) ==
    IF slots = << >> THEN << >>
    ELSE << Head(slots).widget_html >> \o Fragments(Tail(slots))

\* The fragments of the specs of log from position k on that were rendered
\* with a score of at least 0.5, in order.
RECURSIVE PlacedFrom(_, _)
PlacedFrom(log, k) ==
    IF k > Len(log) THEN << >>
    ELSE (IF k \in Rendered(log) /\ log[k].score >= 5
          THEN << log[k].html >> ELSE << >>) \o PlacedFrom(log, k + 1)

\* C21: the list returned holds, in order, the fragments of the specs whose
\* assessment had data, rendered and scored at least 0.5; if there is none
\* it holds at most one fragment, that of a spec whose assessment had data,
\* rendered and scored at least 0.3 (and less than 0.5).  So no slot comes
\* from an assessment without data, and a slot of a score below 0.5 is the
\* only slot of the list.
C21_SubThresholdNotPlaced ==
    pc = "returned" =>
        LET placed == PlacedFrom(assessed, 1)
        IN  IF placed # << >> THEN Fragments(widget_slots) = placed
            ELSE /\ Len(widget_slots) <= 1
                 /\ Len(widget_slots) = 1 =>
                      \E k \in Rendered(assessed) :
                          /\ assessed[k].score >= 3
                          /\ assessed[k].score < 5
                          /\ assessed[k].extracted_data # None
                          /\ widget_slots[1].widget_html = assessed[k].html

\* Witness of C21: of two rendered specs, scored 0.5 and 0.4, only the first
\* is in the list returned.
C21_Witness ==
    /\ pc = "returned"
    /\ Len(assessed) = 2
    /\ Rendered(assessed) = {1, 2}
    /\ assessed[1].score = 5 /\ assessed[2].score = 4
    /\ Len(widget_slots) = 1
    /\ widget_slots[1].widget_html = assessed[1].html
    /\ assessed[1].html # assessed[2].html

----------------------------------------------------------------------------
(* Properties of the image functions (checked under SpecImages) *)

\* C19: when the selection has ended with (None, None) and the only errors
\* of its API calls were image fetch errors, no candidate of the list can be
\* fetched.
C19_NoneOnlyWithoutViable ==
    ( /\ pc = "selected" /\ api_key
      /\ selection.index = 0 - 1
      /\ failures = {"fetch"} )
    => \A j \in 1..Len(candidates) : ~candidates[j].reachable

\* C20: when the selection returned none, the step that handles it appends
\* no slot for the spec; when the selection ran without API key, that step
\* appends one slot, with the url of candidate 0 and with the title of
\* candidate 0 ("" if it has none) as caption.
C20_SelectionHandling ==
    [][ (pc = "selected" /\ pc' # "selected") =>
          /\ selection.index = 0 - 1 => image_slots' = image_slots
          /\ ~api_key =>
               /\ Len(image_slots') = Len(image_slots) + 1
               /\ SubSeq(image_slots', 1, Len(image_slots)) = image_slots
               /\ image_slots'[Len(image_slots')].image_url = candidates[1].url
               /\ image_slots'[Len(image_slots')].caption =
                     (IF candidates[1].title = Absent THEN ""
                      ELSE candidates[1].title) ]_vars

\* Witness of C20: without API key, two specs with two search results each
\* have been turned into slots with the first result's url and title.
C20_Witness ==
    /\ pc = "returned" /\ ~api_key
    /\ Len(slot_specs) = 2
    /\ Len(image_slots) = 2
    /\ image_slots[1].image_url = "u1_0" /\ image_slots[1].caption = "title_0"
    /\ image_slots[2].image_url = "u2_0" /\ image_slots[2].caption = "title_0"

\* Witness of the first case of C20: the selection of the first spec returned
\* none after a fetch error, the second spec was resolved, and the list
\* returned holds the slot of the second spec only.
C20_WitnessNone ==
    /\ pc = "returned" /\ api_key
    /\ Len(resolved) = 2
    /\ resolved[1].search = "candidates" /\ resolved[1].selection.index = 0 - 1
    /\ resolved[2].selection.index = 1
    /\ Len(image_slots) = 1
    /\ image_slots[1].image_url = "u2_1"

\* The urls of the slots of a list, in order.
RECURSIVE SlotUrls(_)
SlotUrls(slots) ==
    IF slots = << >> THEN << >>
    ELSE << Head(slots).image_url >> \o SlotUrls(Tail(slots))

\* The urls chosen for the specs of log from position k on whose search
\* returned candidates and whose selection returned an index (and, if
\* captioned is set, a caption), in the order of the specs.
RECURSIVE ChosenFrom(_, _, _)
ChosenFrom(log, k, captioned) ==
    IF k > Len(log) THEN << >>
    ELSE (IF /\ log[k].search = "candidates"
             /\ log[k].selection.index >= 0
             /\ (captioned => log[k].selection.caption # None)
          THEN << Url(k, log[k].selection.index) >>
          ELSE << >>)
         \o ChosenFrom(log, k + 1, captioned)

\* C22 as stated: the list returned holds, in the order of the specs, one
\* slot for each spec whose search returned candidates and whose selection
\* returned an index, and no other slot.
C22_SubsequenceOfIndexed ==
    pc = "returned" =>
        /\ Len(resolved) = Len(slot_specs)
        /\ SlotUrls(image_slots) = ChosenFrom(resolved, 1, FALSE)

\* C22, amended: the list returned holds, in the order of the specs, one
\* slot for each spec whose search returned candidates and whose selection
\* returned an index and a caption, and no other slot; a spec whose search
\* failed or was empty or whose selection failed is the only one dropped.
C22_SubsequenceOfSelected ==
    pc = "returned" =>
        /\ Len(resolved) = Len(slot_specs)
        /\ SlotUrls(image_slots) = ChosenFrom(resolved, 1, TRUE)
        /\ \A k \in 1..Len(image_slots) : image_slots[k].caption # None

\* Witness of C22: the search of the first spec returned nothing, the second
\* spec was resolved to its second candidate, and the list returned holds
\* the slot of the second spec only.
C22_Witness ==
    /\ pc = "returned"
    /\ Len(resolved) = 2
    /\ resolved[1].search = "empty"
    /\ resolved[2].search = "candidates"
    /\ resolved[2].selection = [index |-> 1, caption |-> "cap"]
    /\ SlotUrls(image_slots) = << "u2_1" >>

NotExcluded(excluded) == (0..(Len(candidates) - 1)) \ excluded

\* The sequence seq lists exactly the members of set, in ascending order.
ListsAscending(seq, set) ==
    /\ {seq[j] : j \in 1..Len(seq)} = set
    /\ \A j1, j2 \in 1..Len(seq) : j1 < j2 => seq[j1] < seq[j2]

\* C28: within one selection the excluded set never shrinks; every API call
\* is offered exactly the candidates not excluded at that time; a retryable
\* error excludes exactly one more candidate, the last of those offered; and
\* an index returned is the original index of a candidate that was not
\* excluded when the successful call was made.
C28_ExclusionDiscipline ==
    [][ (pc = "select" /\ api_key) =>
          /\ excluded_indices \subseteq excluded_indices'
          /\ attempt' = attempt + 1 =>
                ListsAscending(offered', NotExcluded(excluded_indices))
          /\ pc' = "select" =>
                /\ attempt' = attempt + 1
                /\ \E i \in NotExcluded(excluded_indices) :
                      /\ \A j \in NotExcluded(excluded_indices) : j <= i
                      /\ excluded_indices' = excluded_indices \cup {i}
          /\ (pc' = "selected" /\ selection'.index # NoIndex) =>
                /\ attempt' = attempt + 1
                /\ excluded_indices' = excluded_indices
                /\ selection'.index \in NotExcluded(excluded_indices) ]_vars

\* Witness of C28: after one fetch error excluded the last of two
\* candidates, the next call was offered the others and returned one of them.
C28_Witness ==
    /\ pc = "selected" /\ api_key
    /\ Len(candidates) = 2
    /\ attempt = 2
    /\ failures = {"fetch"}
    /\ excluded_indices = {1}
    /\ offered = << 0 >>
    /\ selection = Selection(0, "cap")

----------------------------------------------------------------------------
(* Properties of generate_image_slots (checked under SpecSuggest) *)

\* The API call of the run was made and returned a completion.
CallAnswered ==
    /\ pc \in {"returned", "raised"}
    /\ sg_api_key /\ input_file = "article"
    /\ completion.raises = "none"

\* The completion cannot be used: it is not JSON, bare or fenced, or it is
\* JSON without a "slots" key.
Unusable(content) == content.body \in {"prose", "other_object", "array"}

\* C24: when the API call returned a response that cannot be used,
\* generate_image_slots raises ValueError; it raises RuntimeError only when
\* the API call itself raised.
C24_InvalidResponseIsValueError ==
    /\ (CallAnswered /\ Unusable(completion.content)) => err = "ValueError"
    /\ (pc = "raised" /\ err = "RuntimeError") => completion.raises # "none"

----------------------------------------------------------------------------
(* Properties of main (checked under SpecMain) *)

\* The builders were handed slots and every one of them failed.
EverySlotFailed ==
    /\ Len(suggested_slots) + Len(widget_data) > 0
    /\ final_slots = << >> /\ widget_final_slots = << >>

\* C23: when main has ended after an external call failed, and it is not so
\* that every slot failed, the output document has been written and is the
\* mutated HTML with the slots that did resolve injected.
C23_FailureDoesNotAbort ==
    (pc = "ended" /\ env_key /\ failed # {} /\ ~EverySlotFailed) =>
        /\ written # << >>
        /\ written = InjectIntoHtml(mutated_html, final_slots \o widget_final_slots)

\* A slot one of whose ids names an element of d.
Resolvable(d, s) == Resolves(d, s.paragraph_id) \/ Resolves(d, s.section_id)

\* The elements of d that carry the payload of slot s.
PayloadOf(d, s) ==
    IF Truthy(s.image_url)
    THEN {j \in 1..Len(d) : d[j].tag = "img" /\ d[j].src = s.image_url}
    ELSE {j \in 1..Len(d) : d[j].txt = s.widget_html}

\* C30: the document written holds the fragment of every resolvable slot of
\* final_slots + widget_final_slots exactly once and that of no other slot,
\* and nothing else was added to the mutated HTML.
C30_EachSlotConsumedOnce ==
    (pc = "ended" /\ written # << >>) =>
        LET base == Parse(mutated_html)
            out == Parse(written)
            slots == final_slots \o widget_final_slots
            images == {k \in 1..Len(final_slots) : Resolvable(base, final_slots[k])}
            widgets == {k \in 1..Len(widget_final_slots) :
                          Resolvable(base, widget_final_slots[k])}
        IN  /\ \A k \in 1..Len(slots) :
                  Cardinality(PayloadOf(out, slots[k]))
                  = (IF Resolvable(base, slots[k]) THEN 1 ELSE 0)
            /\ Len(out) = Len(base) + 3 * Cardinality(images) + Cardinality(widgets)

----------------------------------------------------------------------------
(* Properties of html_to_article_view (checked under SpecExtract) *)

\* The ids of the outline: those of its sections and of their paragraphs.
OutlineIds(view) ==
    {view.sections[k].id : k \in 1..Len(view.sections)}
    \cup UNION { {view.sections[k].paragraphs[m].id :
                     m \in 1..Len(view.sections[k].paragraphs)}
                 : k \in 1..Len(view.sections) }

\* C2: every id of the returned outline is the id attribute of exactly one
\* element of the returned mutated HTML.
C2_AnchorCompleteness ==
    pc = "returned" =>
        LET html == Parse(mutated_html)
        IN  \A x \in OutlineIds(article_view) :
                Cardinality({j \in 1..Len(html) : html[j].id = x}) = 1

\* C3: extraction of the mutated HTML of an earlier pass returns the outline
\* of the first pass, and leaves every id attribute it finds as it is.
C3_IdempotentExtraction ==
    (pc = "returned" /\ pass >= 2) =>
        /\ article_view = first_view
        /\ \A i \in 1..Len(input_soup) :
              soup[Same(input_soup, i, soup)].id = input_soup[i].id

\* Witness of C3: a second pass has returned for a document whose first pass
\* generated the id of a synthetic section, of a heading and of a paragraph.
C3_Witness ==
    /\ pc = "returned" /\ pass = 2
    /\ Len(first_view.sections) >= 2
    /\ first_view.sections[1].heading = << "Introduction" >>
    /\ first_view.sections[2].id = "sec_2"
    /\ first_view.sections[1].paragraphs[1].id = "p_1"
    /\ \E i \in 1..Len(first_html) : first_html[i].t = "start" /\ first_html[i].id = "sec_2"

\* The elements below the article root, the title, the headings that open
\* sections and the paragraph-like elements of a document, by position.
InArticle(d) ==
    LET article == FindArticle(d) IN (article + 1)..SubtreeEnd(d, article)

TitleHeading(d) ==
    LET h1s == {j \in InArticle(d) : d[j].tag = "h1"}
    IN  IF h1s = {} THEN 0 ELSE CHOOSE j \in h1s : \A k \in h1s : j <= k

SectionHeadings(d) ==
    LET title == TitleHeading(d)
    IN  {j \in InArticle(d) : d[j].tag \in HEADING_TAGS /\ j # title}

ParagraphLikes(d) ==
    {j \in InArticle(d) :
        \/ d[j].tag = "p"
        \/ d[j].tag = "span" /\ {"mb-4", "block"} \subseteq d[j].cls}

\* The first paragraph-like element precedes every section heading.
LeadingParagraph(d) ==
    LET paragraphs == ParagraphLikes(d)
    IN  /\ paragraphs # {}
        /\ \A h \in SectionHeadings(d) : \E q \in paragraphs : q < h

FirstParagraph(d) ==
    CHOOSE q \in ParagraphLikes(d) : \A r \in ParagraphLikes(d) : q <= r

IdText(prefix, n) == prefix \o ToString(n)

RECURSIVE AllParagraphs(_)
AllParagraphs(sections) ==
    IF sections = << >> THEN << >>
    ELSE Head(sections).paragraphs \o AllParagraphs(Tail(sections))

\* C6: a section heading without an id gets sec_<n>, n its position among
\* the sections of the outline (a synthetic Introduction and sections that
\* kept their id are counted); a paragraph-like element without an id gets
\* p_<n>, n its position among all paragraph-like elements of the article.
C6_OrdinalIds ==
    pc = "returned" =>
        LET headings == SectionHeadings(input_soup)
            likes == ParagraphLikes(input_soup)
            intro == IF LeadingParagraph(input_soup) THEN 1 ELSE 0
            paras == AllParagraphs(article_view.sections)
        IN  /\ \A h \in headings :
                 LET n == Cardinality({k \in headings : k <= h}) + intro
                 IN  /\ n <= Len(article_view.sections)
                     /\ article_view.sections[n].level = Level(input_soup[h].tag)
                     /\ ~Truthy(input_soup[h].id) =>
                           /\ article_view.sections[n].id = IdText("sec_", n)
                           /\ soup[Same(input_soup, h, soup)].id = IdText("sec_", n)
            /\ \A q \in likes :
                 LET n == Cardinality({k \in likes : k <= q})
                 IN  /\ n <= Len(paras)
                     /\ paras[n].text = GetText(input_soup, q)
                     /\ ~Truthy(input_soup[q].id) =>
                           /\ paras[n].id = IdText("p_", n)
                           /\ soup[Same(input_soup, q, soup)].id = IdText("p_", n)
            /\ Len(article_view.sections) = Cardinality(headings) + intro
            /\ Len(paras) = Cardinality(likes)

\* Witness of C6: a synthetic section, then a heading that got sec_2 and
\* whose paragraph got p_2.
C6_Witness ==
    /\ pc = "returned" /\ pass = 1
    /\ Len(article_view.sections) = 2
    /\ article_view.sections[1].id = "sec_1"
    /\ article_view.sections[1].paragraphs # << >>
    /\ article_view.sections[2].id = "sec_2"
    /\ article_view.sections[2].paragraphs # << >>
    /\ article_view.sections[2].paragraphs[1].id = "p_2"
    /\ \A i \in 1..Len(input_soup) : input_soup[i].id = None

\* The sections of the outline that are synthetic.
Synthetic(view) ==
    {k \in 1..Len(view.sections) : view.sections[k].heading = << "Introduction" >>}

\* C7: if the first paragraph-like element precedes every section heading,
\* the outline starts with a section "Introduction" of level 2 with a
\* generated id, and the mutated HTML has an empty element with that id as
\* the immediate previous sibling of that paragraph; otherwise no synthetic
\* section is made; never more than one is made.
C7_SyntheticIntroduction ==
    pc = "returned" =>
        LET html == Parse(mutated_html)
        IN  IF LeadingParagraph(input_soup)
            THEN LET q == Same(input_soup, FirstParagraph(input_soup), soup)
                     a == PrevSibling(html, q)
                 IN  /\ Synthetic(article_view) = {1}
                     /\ article_view.sections[1].level = 2
                     /\ article_view.sections[1].id = IdText("sec_", 1)
                     /\ Len(html) = Len(input_soup) + 1
                     /\ a # 0
                     /\ html[a].id = article_view.sections[1].id
                     /\ SubtreeEnd(html, a) = a
                     /\ html[a].txt = ""
                     /\ html[a].tag \notin HEADING_TAGS \cup {"p", "span"}
            ELSE /\ Synthetic(article_view) = {}
                 /\ Len(html) = Len(input_soup)

\* Witness of C7: a synthetic section followed by the section of a heading.
C7_Witness ==
    /\ pc = "returned" /\ pass = 1
    /\ Len(article_view.sections) >= 2
    /\ Synthetic(article_view) = {1}
    /\ Len(soup) = Len(input_soup) + 1
    /\ \E j \in 2..Len(soup) : soup[j].tag = "div" /\ soup[j].id = "sec_1"

\* C29: the mutated HTML returned by a run of html_to_article_view on the
\* mutated HTML of a previous run has the same elements, with the same ids,
\* as that of the previous run.
C29_ReextractionUnchanged ==
    (pc = "returned" /\ pass >= 2) =>
        LET first == Parse(first_html)
            again == Parse(mutated_html)
        IN  /\ Len(again) = Len(first)
            /\ \A j \in 1..Len(first) : again[j] = first[j]

\* C8: no two sections of the returned outline have the same id.
C8_SectionIdsUnique ==
    pc = "returned" =>
        \A k1, k2 \in 1..Len(article_view.sections) :
            k1 # k2 => article_view.sections[k1].id # article_view.sections[k2].id

\* The root the extraction is to use: the first article element carrying the
\* schema.org Article itemtype if there is one, else the first article
\* element, 0 if the document has no article element.
ArticleElements(d) == {j \in 1..Len(d) : d[j].tag = "article"}

ArticleRoot(d) ==
    LET marked == {j \in ArticleElements(d) : d[j].itemtype = "https://schema.org/Article"}
        from == IF marked # {} THEN marked ELSE ArticleElements(d)
    IN  IF from = {} THEN 0 ELSE CHOOSE j \in from : \A k \in from : j <= k

\* C13: the extraction raises (a ValueError) exactly on the documents without
\* an article element; on every other document it returns, the paragraphs of
\* its outline are the paragraph-like elements below the first article
\* element with the schema.org Article itemtype (below the first article
\* element if none has it), and no element outside that root is touched.
C13_ArticleRoot ==
    /\ pc = "raised" => (err = "ValueError" /\ ArticleElements(input_soup) = {})
    /\ pc = "returned" =>
        /\ err = "none"
        /\ ArticleElements(input_soup) # {}
        /\ LET r == ArticleRoot(input_soup)
               below == (r + 1)..SubtreeEnd(input_soup, r)
               paras == AllParagraphs(article_view.sections)
           IN  /\ {paras[k].text : k \in 1..Len(paras)}
                    = {GetText(input_soup, q) :
                         q \in {j \in below :
                                 \/ input_soup[j].tag = "p"
                                 \/ /\ input_soup[j].tag = "span"
                                    /\ {"mb-4", "block"} \subseteq input_soup[j].cls}}
               /\ \A j \in (1..Len(input_soup)) \ below :
                     /\ Same(input_soup, j, soup) # 0
                     /\ soup[Same(input_soup, j, soup)] = input_soup[j]

\* Witness of C13: the extraction returned for a document whose first article
\* element is not the marked one, and only the paragraph of the marked one
\* is in the outline.
C13_Witness ==
    /\ pc = "returned" /\ pass = 1
    /\ Cardinality(ArticleElements(input_soup)) = 2
    /\ ArticleRoot(input_soup) = 3
    /\ Len(AllParagraphs(article_view.sections)) = 1
    /\ AllParagraphs(article_view.sections)[1].text = GetText(input_soup, 4)

\* Witness of the raising case of C13.
C13_WitnessRaised ==
    pc = "raised" /\ ArticleElements(input_soup) = {} /\ err = "ValueError"

\* C15: the outline records every paragraph-like element of the article root
\* exactly once; the paragraph lists of the sections, put together in section
\* order, are the paragraph-like elements in document order; each is recorded
\* in the section of its nearest preceding non-title heading, or in the
\* Introduction section (the first one) if no such heading precedes it; the
\* sections are the non-title headings, after the Introduction if there is
\* one, so the title heading opens none.
C15_ParagraphAttachment ==
    pc = "returned" =>
        LET d == input_soup
            secs == article_view.sections
            paras == AllParagraphs(secs)
            headings == SectionHeadings(d)
            likes == ParagraphLikes(d)
            intro == IF likes # {} /\ \A h \in headings : \E q \in likes : q < h
                     THEN 1 ELSE 0
            SecNo(h) == Cardinality({k \in headings : k <= h}) + intro
            ParNo(q) == Cardinality({k \in likes : k <= q})
        IN  /\ Len(paras) = Cardinality(likes)
            /\ \A q \in likes : paras[ParNo(q)].text = GetText(d, q)
            /\ Len(secs) = Cardinality(headings) + intro
            /\ intro = 1 => secs[1].heading = << "Introduction" >>
            /\ \A h \in headings : secs[SecNo(h)].heading = GetText(d, h)
            /\ \A q \in likes :
                  LET before == {h \in headings : h < q}
                      n == IF before = {} THEN 1
                           ELSE SecNo(CHOOSE h \in before : \A k \in before : k <= h)
                  IN  /\ before = {} => intro = 1
                      /\ \E k \in 1..Len(secs[n].paragraphs) :
                            secs[n].paragraphs[k].text = GetText(d, q)

\* Witness of C15: a document with a title heading, a section heading and a
\* paragraph after it has an outline of one section, opened by the section
\* heading and holding the paragraph.
C15_Witness ==
    /\ pc = "returned" /\ pass = 1
    /\ TitleHeading(input_soup) # 0
    /\ article_view.title # << >>
    /\ Len(article_view.sections) = 1
    /\ article_view.sections[1].heading # << "Introduction" >>
    /\ article_view.sections[1].heading # article_view.title
    /\ Len(article_view.sections[1].paragraphs) = 1
====
